---- MODULE Spec2Model ----
(***************************************************************************)
(* QuickDup (asynkron/Asynkron.QuickDup): the detection pipeline of        *)
(* cmd/quickdup as a state machine.                                        *)
(*                                                                         *)
(*   parseFilesWithCache -> saveCache -> detectPatterns (base generation,  *)
(*   one step per grow iteration) -> FilterPatterns -> WriteJSONResults    *)
(*                                                                         *)
(* A behaviour is two consecutive runs of the program over the same files: *)
(* a cold run and a second run that finds the cache blob of the first.     *)
(*                                                                         *)
(* Conventions                                                             *)
(*  - a text is a sequence of one-character strings; a file content is a   *)
(*    text with "\n" between its lines;                                    *)
(*  - a 64 bit FNV-1a sum is represented by the byte sequence that was     *)
(*    written to the hasher (FNV is taken to be collision free on the      *)
(*    inputs of the model); sums are ordered lexicographically by Code;    *)
(*  - a float64 similarity is the exact rational <<num, den>> in lowest    *)
(*    terms;                                                               *)
(*  - the order in which Go iterates a map and in which the workers of a   *)
(*    pool take the mutex is a nondeterministic choice of the action.      *)
(***************************************************************************)
EXTENDS Integers, Sequences, FiniteSets, TLC

(***************************************************************************)
(* Bounds of the model                                                     *)
(***************************************************************************)
MaxLines == 3

\* the longest content, in bytes, of the files given to the preparser
MaxBytes == 5

\* the most lines of a file scored by the inlineable strategy
MaxWindow == 6

(***************************************************************************)
(* Generic helpers                                                         *)
(***************************************************************************)
Range(s) ==
  {s[i] : i \in 1..Len(s)}

Min(a, b) ==
  IF a < b THEN a ELSE b

Max(a, b) ==
  IF a > b THEN a ELSE b

RECURSIVE Gcd(_, _)
Gcd(a, b) ==
  IF b = 0 THEN a ELSE Gcd(b, a % b)

RECURSIVE Concat(_)
Concat(ss) ==
  IF ss = <<>> THEN <<>> ELSE Head(ss) \o Concat(Tail(ss))

SelectIdx(s, keep) ==
  LET F[i \in 0..Len(s)] ==
        IF i = 0 THEN <<>>
        ELSE IF i \in keep THEN Append(F[i-1], s[i]) ELSE F[i-1]
  IN F[Len(s)]

Perms(S) ==
  {p \in [1..Cardinality(S) -> S] : \A i, j \in 1..Cardinality(S) : i # j => p[i] # p[j]}

HasPrefix(s, p) ==
  /\ Len(p) <= Len(s)
  /\ \A i \in 1..Len(p) : s[i] = p[i]

(***************************************************************************)
(* float64 values as exact rationals                                       *)
(***************************************************************************)
Rat(n, d) ==
  LET g == Gcd(n, d) IN IF n = 0 THEN <<0, 1>> ELSE <<n \div g, d \div g>>

RatAdd(x, y) ==
  Rat(x[1] * y[2] + y[1] * x[2], x[2] * y[2])

RatGeq(x, y) ==
  x[1] * y[2] >= y[1] * x[2]

RatLt(x, y) ==
  ~RatGeq(x, y)

One ==
  <<1, 1>>

(***************************************************************************)
(* parser.go                                                               *)
(***************************************************************************)
separators ==
  {" ", "\t", ":", ".", ";", "{", "}", "(", ")", "[", "]", "#", "!", "<", ">", "=", ",", "\n", "\r"}

commentPrefix ==
  <<"/", "/">>

currentFileExt ==
  ".go"

skipFirstWords ==
  [e \in {".go"} |-> {<<"i", "m", "p", "o", "r", "t">>, <<"p", "a", "c", "k", "a", "g", "e">>}]

isWhitespaceOnly(line) ==
  \A i \in 1..Len(line) : line[i] \in {" ", "\t"}

\* index (1-based) of the first character that is neither space nor tab, Len+1 if none
FirstNonBlank(line) ==
  IF \E i \in 1..Len(line) : line[i] \notin {" ", "\t"}
  THEN CHOOSE i \in 1..Len(line) :
          /\ line[i] \notin {" ", "\t"}
          /\ \A j \in 1..(i-1) : line[j] \in {" ", "\t"}
  ELSE Len(line) + 1

TrimLeft(line) ==
  SubSeq(line, FirstNonBlank(line), Len(line))

isCommentOnly(line) ==
  IF commentPrefix = <<>> THEN FALSE ELSE HasPrefix(TrimLeft(line), commentPrefix)

calculateIndent(line) ==
  LET n == FirstNonBlank(line) - 1
      F[i \in 0..n] ==
        IF i = 0 THEN 0 ELSE F[i-1] + (IF line[i] = " " THEN 1 ELSE 4)
  IN F[n]

extractFirstWord(line) ==
  LET start   == IF FirstNonBlank(line) > Len(line) THEN 1 ELSE FirstNonBlank(line)
      trimmed == SubSeq(line, start, Len(line))
      end     == IF \E i \in 1..Len(trimmed) : trimmed[i] \in separators
                 THEN (CHOOSE i \in 1..Len(trimmed) :
                          /\ trimmed[i] \in separators
                          /\ \A j \in 1..(i-1) : trimmed[j] \notin separators) - 1
                 ELSE Len(trimmed)
  IN IF end = 0 /\ Len(trimmed) > 0 THEN <<trimmed[1]>> ELSE SubSeq(trimmed, 1, end)

shouldSkipByFirstWord(line) ==
  IF currentFileExt \notin DOMAIN skipFirstWords THEN FALSE
  ELSE extractFirstWord(line) \in skipFirstWords[currentFileExt]

\* strings.Split(content, "\n")
RECURSIVE SplitLines(_)
SplitLines(content) ==
  IF \E i \in 1..Len(content) : content[i] = "\n"
  THEN LET k == CHOOSE i \in 1..Len(content) :
                   /\ content[i] = "\n"
                   /\ \A j \in 1..(i-1) : content[j] # "\n"
       IN <<SubSeq(content, 1, k-1)>> \o SplitLines(SubSeq(content, k+1, Len(content)))
  ELSE <<content>>

\* strings.Join(lines, "\n"): how the inputs of the model are written down
RECURSIVE JoinLines(_)
JoinLines(lines) ==
  IF lines = <<>> THEN <<>>
  ELSE IF Len(lines) = 1 THEN lines[1]
  ELSE lines[1] \o <<"\n">> \o JoinLines(Tail(lines))

(***************************************************************************)
(* The c-style preparser (CStyleCommentStripper.Preparse)                  *)
(***************************************************************************)
RECURSIVE PreparseScan(_, _)
RECURSIVE PreparseBlank(_, _)
PreparseScan(result, i) ==
  IF i > Len(result) THEN result
  ELSE IF i + 1 <= Len(result) /\ result[i] = "/" /\ result[i+1] = "*"
       THEN PreparseBlank([result EXCEPT ![i] = " ", ![i+1] = " "], i + 2)
       ELSE PreparseScan(result, i + 1)

PreparseBlank(result, j) ==
  IF j > Len(result) THEN result
  ELSE IF j + 1 <= Len(result) /\ result[j] = "*" /\ result[j+1] = "/"
       THEN PreparseScan([result EXCEPT ![j] = " ", ![j+1] = " "], j + 2)
       ELSE PreparseBlank(IF result[j] # "\n" THEN [result EXCEPT ![j] = " "] ELSE result, j + 1)

\* Preparse with a fault seeded: the slashes of the delimiters stay
PreparseKeepsSlashes(content) ==
  LET result == PreparseScan(content, 1)
  IN [k \in 1..Len(result) |-> IF content[k] = "/" THEN "/" ELSE result[k]]

Preparse(content) ==
  PreparseScan(content, 1)

(***************************************************************************)
(* Entries and the two cached/uncached strategies                          *)
(* (WordIndentStrategy, NormalizedIndentStrategy)                          *)
(***************************************************************************)
WordIndent ==
  "word-indent"

NormalizedIndent ==
  "normalized-indent"

\* a nil Entry / a nil []byte
NoEntry ==
  [nil |-> TRUE]

Alphabet ==
  <<"\n", "\t", " ", "!", "#", "(", ")", "*", ",", "-", ".", "/",
    "0", "1", "2", "3", "4", "5", "6", "7", "8", "9", ":", ";", "<", "=", ">",
    "[", "]", "a", "b", "c", "d", "e", "f", "g", "h", "i", "j", "k", "l", "m",
    "n", "o", "p", "q", "r", "s", "t", "u", "v", "w", "x", "y", "z", "{", "|", "}">>

Code(c) ==
  CHOOSE i \in 1..Len(Alphabet) : Alphabet[i] = c

Digits ==
  <<"0", "1", "2", "3", "4", "5", "6", "7", "8", "9">>

\* fmt.Sprintf("%d", n)
RECURSIVE Itoa(_)
Itoa(n) ==
  IF n < 0 THEN <<"-">> \o Itoa(0 - n)
  ELSE IF n < 10 THEN <<Digits[n + 1]>>
  ELSE Itoa(n \div 10) \o <<Digits[(n % 10) + 1]>>

\* fmt.Sprintf("%d|%s\n", indentDelta, word)
HashBytesOf(indentDelta, word) ==
  Itoa(indentDelta) \o <<"|">> \o word \o <<"\n">>

NewWordIndentEntry(indentDelta, word) ==
  [LineNumber |-> 0, IndentDelta |-> indentDelta, Word |-> word,
   SourceLine |-> <<>>, hashBytes |-> HashBytesOf(indentDelta, word)]

NewNormalizedIndentEntry(indentDelta, word) ==
  [LineNumber |-> 0, IndentDelta |-> indentDelta, Word |-> word,
   SourceLine |-> <<>>, hashBytes |-> HashBytesOf(indentDelta, word)]

\* WordIndentStrategy.ParseLine / NormalizedIndentStrategy.ParseLine
ParseLine(strategy, lineNum, line, prevEntry) ==
  IF \/ isWhitespaceOnly(line)
     \/ isCommentOnly(line)
     \/ (strategy = NormalizedIndent /\ shouldSkipByFirstWord(line))
  THEN [skip |-> TRUE, entry |-> NoEntry]
  ELSE LET prevIndent  == IF prevEntry = NoEntry THEN 0
                          ELSE calculateIndent(prevEntry.SourceLine)
           indent      == calculateIndent(line)
           word        == extractFirstWord(line)
           rawDelta    == indent - prevIndent
           indentDelta == IF strategy = WordIndent THEN rawDelta
                          ELSE IF rawDelta > 0 THEN 1
                          ELSE IF rawDelta < 0 THEN 0 - 1
                          ELSE 0
       IN [skip  |-> FALSE,
           entry |-> [LineNumber |-> lineNum, IndentDelta |-> indentDelta,
                      Word |-> word, SourceLine |-> line,
                      hashBytes |-> HashBytesOf(indentDelta, word)]]

\* parseFile with a fault seeded: a skipped line resets prevEntry
parseFileSkipResets(strategy, data) ==
  LET lines == SplitLines(Preparse(data))
      F[i \in 0..Len(lines)] ==
        IF i = 0 THEN [entries |-> <<>>, prevEntry |-> NoEntry]
        ELSE LET r == ParseLine(strategy, i, lines[i], F[i-1].prevEntry)
             IN IF r.skip THEN [entries |-> F[i-1].entries, prevEntry |-> NoEntry]
                ELSE [entries |-> Append(F[i-1].entries, r.entry), prevEntry |-> r.entry]
  IN F[Len(lines)].entries

\* parseFile, for a file that can be read
parseFile(strategy, data) ==
  LET lines == SplitLines(Preparse(data))
      F[i \in 0..Len(lines)] ==
        IF i = 0 THEN [entries |-> <<>>, prevEntry |-> NoEntry]
        ELSE LET r == ParseLine(strategy, i, lines[i], F[i-1].prevEntry)
             IN IF r.skip THEN F[i-1]
                ELSE [entries |-> Append(F[i-1].entries, r.entry), prevEntry |-> r.entry]
  IN F[Len(lines)].entries

\* bufio.ScanLines: the lines of a bufio.Scanner, each without its "\n" and
\* without one "\r" before it; no line after a final "\n"
dropCR(line) ==
  IF line # <<>> /\ line[Len(line)] = "\r" THEN SubSeq(line, 1, Len(line) - 1) ELSE line

RECURSIVE ScanLines(_)
ScanLines(content) ==
  IF content = <<>> THEN <<>>
  ELSE IF \E i \in 1..Len(content) : content[i] = "\n"
  THEN LET k == CHOOSE i \in 1..Len(content) :
                   /\ content[i] = "\n"
                   /\ \A j \in 1..(i-1) : content[j] # "\n"
       IN <<dropCR(SubSeq(content, 1, k-1))>> \o ScanLines(SubSeq(content, k+1, Len(content)))
  ELSE <<dropCR(content)>>

\* WordIndentStrategy.ShouldSkip of the default strategy
ShouldSkip(entry) ==
  isWhitespaceOnly(entry.SourceLine) \/ isCommentOnly(entry.SourceLine)

\* the default parseFile (main.go): a scanner over the file, prevIndent
\* updated on emitted lines only
parseFileDefault(data) ==
  LET lines == ScanLines(data)
      F[i \in 0..Len(lines)] ==
        IF i = 0 THEN [entries |-> <<>>, prevIndent |-> 0]
        ELSE LET line   == lines[i]
                 indent == calculateIndent(line)
                 entry  == [LineNumber  |-> i,
                            IndentDelta |-> indent - F[i-1].prevIndent,
                            Word        |-> extractFirstWord(line),
                            SourceLine  |-> line]
             IN IF ShouldSkip(entry) THEN F[i-1]
                ELSE [entries |-> Append(F[i-1].entries, entry), prevIndent |-> indent]
  IN F[Len(lines)].entries

\* Strategy.Hash: the bytes written to the FNV-1a hasher
Hash(entries) ==
  Concat([i \in 1..Len(entries) |-> entries[i].hashBytes])

\* the byte of a character of Alphabet
Ascii ==
  <<10, 9, 32, 33, 35, 40, 41, 42, 44, 45, 46, 47,
    48, 49, 50, 51, 52, 53, 54, 55, 56, 57, 58, 59, 60, 61, 62,
    91, 93, 97, 98, 99, 100, 101, 102, 103, 104, 105, 106, 107, 108, 109,
    110, 111, 112, 113, 114, 115, 116, 117, 118, 119, 120, 121, 122, 123, 124, 125>>

ByteOf(c) ==
  Ascii[Code(c)]

\* a ^ b on bytes
Xor8(a, b) ==
  LET bit(k) == IF ((a \div (2^k)) % 2) # ((b \div (2^k)) % 2) THEN 2^k ELSE 0
  IN bit(0) + bit(1) + bit(2) + bit(3) + bit(4) + bit(5) + bit(6) + bit(7)

\* fnv.New64a(): the offset basis 0xcbf29ce484222325. A uint64 is kept as four
\* limbs of 20 bits, the least significant first (the fourth holds 4 bits).
New64a ==
  <<140069, 936002, 783004, 12>>

\* one byte written to the hasher: h ^= b, then h *= 0x100000001b3 (mod 2^64);
\* the prime is 2^40 + 435 (each intermediate value is bound by a set
\* constructor, which keeps the evaluation flat)
RECURSIVE MulPrime(_, _, _, _)
MulPrime(x, i, carry, out) ==
  IF i > 4 THEN [out EXCEPT ![4] = out[4] % 16]
  ELSE CHOOSE r \in {MulPrime(x, i + 1, v \div 1048576, Append(out, v % 1048576)) :
                       v \in {x[i] * 435 + (IF i > 2 THEN x[i-2] ELSE 0) + carry}} : TRUE

Fnv1aWrite(h, b) ==
  CHOOSE r \in {MulPrime(x, 1, 0, <<>>) :
                  x \in {[h EXCEPT ![1] = (h[1] \div 256) * 256 + Xor8(h[1] % 256, b)]}} : TRUE

\* h.Sum64() after the bytes of a sum's preimage were written
RECURSIVE Fnv1aWriteAll(_, _, _)
Fnv1aWriteAll(h, bytes, k) ==
  IF k > Len(bytes) THEN h
  ELSE CHOOSE r \in {Fnv1aWriteAll(n, bytes, k + 1) :
                       n \in {Fnv1aWrite(h, ByteOf(bytes[k]))}} : TRUE

Sum64(bytes) ==
  Fnv1aWriteAll(New64a, bytes, 1)

HexDigits ==
  <<"0", "1", "2", "3", "4", "5", "6", "7", "8", "9", "a", "b", "c", "d", "e", "f">>

\* fmt.Sprintf("%016x", h)
Hex16(h) ==
  [k \in 1..16 |->
     IF k = 1 THEN HexDigits[h[4] + 1]
     ELSE LET limb  == h[3 - ((k - 2) \div 5)]
              shift == 4 - ((k - 2) % 5)
          IN HexDigits[((limb \div (16^shift)) % 16) + 1]]

\* h1 < h2 on sums
RECURSIVE HashLess(_, _)
HashLess(h1, h2) ==
  IF h2 = <<>> THEN FALSE
  ELSE IF h1 = <<>> THEN TRUE
  ELSE IF Head(h1) # Head(h2) THEN Code(Head(h1)) < Code(Head(h2))
  ELSE HashLess(Tail(h1), Tail(h2))

\* int(float64(n) * x) for n >= 0 and a rational x >= 0
FloorMul(n, x) ==
  (n * x[1]) \div x[2]

\* similarity*2 - 1.0, floored at 0
AdjustedSim(similarity) ==
  LET a == <<2 * similarity[1] - similarity[2], similarity[2]>>
  IN IF a[1] < 0 THEN <<0, 1>> ELSE a

UniqueWords(entries) ==
  Cardinality({entries[i].Word : i \in 1..Len(entries)})

\* WordIndentStrategy.Score / NormalizedIndentStrategy.Score
Score(strategy, entries, similarity) ==
  LET adj == AdjustedSim(similarity)
  IN IF strategy = WordIndent
     THEN FloorMul(UniqueWords(entries), adj)
     ELSE LET R[i \in 0..Len(entries)] ==
                IF i = 0 THEN [running |-> 0, minRunning |-> 0]
                ELSE LET run == R[i-1].running + entries[i].IndentDelta
                     IN [running |-> run, minRunning |-> Min(R[i-1].minRunning, run)]
              unopenedCloses == 0 - R[Len(entries)].minRunning
              unclosedOpens  == Max(R[Len(entries)].running, 0)
              imbalance      == unopenedCloses + unclosedOpens
              effectiveWords == Max(UniqueWords(entries) - imbalance, 0)
              simFactor      == <<adj[1] * adj[1] * adj[1], adj[2] * adj[2] * adj[2]>>
          IN FloorMul(effectiveWords, simFactor) + (Len(entries) \div 20)

\* the canonical block-list windows of a strategy, in indent units d
UselessPatterns(strategy, d) ==
  LET New(indentDelta, word) ==
        IF strategy = WordIndent THEN NewWordIndentEntry(indentDelta, word)
        ELSE NewNormalizedIndentEntry(indentDelta, word)
      close == <<"}">>
      ret   == <<"r", "e", "t", "u", "r", "n">>
      func  == <<"f", "u", "n", "c">>
  IN { <<New(0 - d, close), New(0 - d, close)>>,
       <<New(0 - d, close), New(0 - d, close), New(0 - d, close)>>,
       <<New(0, ret), New(0 - d, close)>>,
       <<New(d, ret), New(0 - d, close)>>,
       <<New(0 - d, close), New(0, ret), New(0 - d, close)>>,
       <<New(0 - d, close), New(0, func)>>,
       <<New(0 - d, close), New(0, ret)>> }

\* WordIndentStrategy.BlockedHashes / NormalizedIndentStrategy.BlockedHashes
BlockedHashes(strategy) ==
  IF strategy = WordIndent
  THEN {Hash(p) : p \in UselessPatterns(strategy, 4)}
  ELSE {Hash(p) : p \in UselessPatterns(strategy, 1)}

(***************************************************************************)
(* strategy_inlineable.go                                                  *)
(***************************************************************************)
Inlineable ==
  "inlineable"

accessModifiers ==
  {<<"p", "u", "b", "l", "i", "c">>, <<"p", "r", "i", "v", "a", "t", "e">>,
   <<"i", "n", "t", "e", "r", "n", "a", "l">>,
   <<"p", "r", "o", "t", "e", "c", "t", "e", "d">>}

ReturnWord ==
  <<"r", "e", "t", "u", "r", "n">>

\* InlineableStrategy.ParseLine
InlineableParseLine(lineNum, line) ==
  IF isWhitespaceOnly(line) \/ isCommentOnly(line) \/ shouldSkipByFirstWord(line)
  THEN [skip |-> TRUE, entry |-> NoEntry]
  ELSE [skip  |-> FALSE,
        entry |-> [LineNumber |-> lineNum, Word |-> extractFirstWord(line),
                   SourceLine |-> line, hashBytes |-> extractFirstWord(line) \o <<"\n">>]]

\* parseFile with the inlineable strategy active
parseFileInlineable(data) ==
  LET lines == SplitLines(Preparse(data))
      F[i \in 0..Len(lines)] ==
        IF i = 0 THEN <<>>
        ELSE LET r == InlineableParseLine(i, lines[i])
             IN IF r.skip THEN F[i-1] ELSE Append(F[i-1], r.entry)
  IN F[Len(lines)]

\* InlineableScore with a fault seeded: windows of up to six records are scored
InlineableScoreUpToSix(entries, similarity) ==
  LET words   == [i \in 1..Len(entries) |-> entries[i].Word]
      matched == \/ /\ Len(words) >= 4
                    /\ words[1] \in accessModifiers /\ words[2] = <<"{">>
                    /\ words[3] = ReturnWord /\ words[4] = <<"}">>
                 \/ /\ Len(words) >= 3
                    /\ words[1] \in accessModifiers /\ words[2] = ReturnWord
                    /\ words[3] = <<"}">>
  IN IF Len(entries) < 3 \/ Len(entries) > 6 THEN 0
     ELSE IF ~matched THEN 0
     ELSE 50 + FloorMul(50, AdjustedSim(similarity))

\* InlineableStrategy.Score
InlineableScore(entries, similarity) ==
  LET words   == [i \in 1..Len(entries) |-> entries[i].Word]
      matched == \/ /\ Len(words) >= 4
                    /\ words[1] \in accessModifiers /\ words[2] = <<"{">>
                    /\ words[3] = ReturnWord /\ words[4] = <<"}">>
                 \/ /\ Len(words) >= 3
                    /\ words[1] \in accessModifiers /\ words[2] = ReturnWord
                    /\ words[3] = <<"}">>
  IN IF Len(entries) < 3 \/ Len(entries) > 5 THEN 0
     ELSE IF ~matched THEN 0
     ELSE 50 + FloorMul(50, AdjustedSim(similarity))

(***************************************************************************)
(* similarity.go                                                           *)
(***************************************************************************)
\* the backquote character, which a TLA+ string cannot hold
Backquote ==
  "backquote"

IsTokenBreak(r) ==
  r \in separators \/ r \in {"\"", "'", Backquote}

\* tokenizeLine, as the set of its tokens (tokenSimilarity only uses the set):
\* the maximal runs of characters that are neither separators nor quotes
tokenizeLine(line) ==
  {SubSeq(line, a, b) : <<a, b>> \in
     {ab \in (1..Len(line)) \X (1..Len(line)) :
        /\ ab[1] <= ab[2]
        /\ \A k \in ab[1]..ab[2] : ~IsTokenBreak(line[k])
        /\ (ab[1] = 1 \/ IsTokenBreak(line[ab[1] - 1]))
        /\ (ab[2] = Len(line) \/ IsTokenBreak(line[ab[2] + 1]))}}

tokenizePattern(pattern) ==
  UNION {tokenizeLine(pattern[i].SourceLine) : i \in 1..Len(pattern)}

\* tokenSimilarity: Jaccard similarity of two token sets
tokenSimilarity(a, b) ==
  IF a = {} /\ b = {} THEN One
  ELSE IF a = {} \/ b = {} THEN <<0, 1>>
  ELSE Rat(Cardinality(a \cap b), Cardinality(a \cup b))

(***************************************************************************)
(* UnionFind (similarity.go)                                               *)
(***************************************************************************)
NewUnionFind(n) ==
  [parent |-> [i \in 0..(n-1) |-> i], rank |-> [i \in 0..(n-1) |-> 0]]

RECURSIVE UFRoot(_, _)
UFRoot(parent, x) ==
  IF parent[x] = x THEN x ELSE UFRoot(parent, parent[x])

\* Find with path compression: the parent array after Find(x)
RECURSIVE UFCompress(_, _)
UFCompress(parent, x) ==
  IF parent[x] = x THEN parent
  ELSE [UFCompress(parent, parent[x]) EXCEPT ![x] = UFRoot(parent, x)]

\* Union with a fault seeded: the elements are linked, not their roots
UnionLinksElements(uf, x, y) ==
  [uf EXCEPT !.parent = [uf.parent EXCEPT ![y] = x]]

Union(uf, x, y) ==
  LET p1 == UFCompress(uf.parent, x)
      fx == UFRoot(uf.parent, x)
      p2 == UFCompress(p1, y)
      fy == UFRoot(p1, y)
      px == IF uf.rank[fx] < uf.rank[fy] THEN fy ELSE fx
      py == IF uf.rank[fx] < uf.rank[fy] THEN fx ELSE fy
  IN IF fx = fy THEN [uf EXCEPT !.parent = p2]
     ELSE [parent |-> [p2 EXCEPT ![py] = px],
           rank   |-> IF uf.rank[px] = uf.rank[py]
                      THEN [uf.rank EXCEPT ![px] = @ + 1] ELSE uf.rank]

(***************************************************************************)
(* clusterBySimilarity                                                     *)
(***************************************************************************)
\* the pairs (i, j), i < j, of 0..n-1 in the order of the two nested loops
PairsInOrder(n) ==
  LET F[k \in 0..(n * n)] ==
        IF k = 0 THEN <<>>
        ELSE LET i == (k - 1) \div n
                 j == (k - 1) % n
             IN IF i < j THEN Append(F[k-1], <<i, j>>) ELSE F[k-1]
  IN F[n * n]

PairSim(locations, i, j) ==
  tokenSimilarity(tokenizePattern(locations[i + 1].Pattern),
                  tokenizePattern(locations[j + 1].Pattern))

\* the union-find after the pairwise loop
ClusterUF(locations, threshold) ==
  LET n  == Len(locations)
      ps == PairsInOrder(n)
      F[k \in 0..Len(ps)] ==
        IF k = 0 THEN NewUnionFind(n)
        ELSE IF RatGeq(PairSim(locations, ps[k][1], ps[k][2]), threshold)
             THEN Union(F[k-1], ps[k][1], ps[k][2])
             ELSE F[k-1]
  IN F[Len(ps)]

\* average similarity of the cluster made of the (ascending) indices
ClusterSimilarity(locations, indices) ==
  LET m  == Len(indices)
      ps == PairsInOrder(m)
      F[k \in 0..Len(ps)] ==
        IF k = 0 THEN <<0, 1>>
        ELSE RatAdd(F[k-1], PairSim(locations, indices[ps[k][1] + 1], indices[ps[k][2] + 1]))
  IN IF Len(ps) > 0 THEN Rat(F[Len(ps)][1], F[Len(ps)][2] * Len(ps)) ELSE One

\* the "sort by cluster size (largest first)" double loop
RECURSIVE SortBySize(_, _, _)
SortBySize(results, i, j) ==
  IF i > Len(results) - 1 THEN results
  ELSE IF j > Len(results) THEN SortBySize(results, i + 1, i + 2)
  ELSE IF Len(results[j].Locations) > Len(results[i].Locations)
       THEN SortBySize([results EXCEPT ![i] = results[j], ![j] = results[i]], i, j + 1)
       ELSE SortBySize(results, i, j + 1)

\* clusterBySimilarity: every result the iteration order of clusterMap allows
clusterBySimilarity(locations, threshold) ==
  LET n == Len(locations)
  IN IF n < 2 THEN {<<[Locations |-> locations, Similarity |-> One]>>}
     ELSE LET uf      == ClusterUF(locations, threshold)
              roots   == {UFRoot(uf.parent, i) : i \in 0..(n-1)}
              idx(r)  == SelectIdx([k \in 1..n |-> k - 1],
                                   {k \in 1..n : UFRoot(uf.parent, k - 1) = r})
              res(r)  == [Locations  |-> [k \in 1..Len(idx(r)) |-> locations[idx(r)[k] + 1]],
                          Similarity |-> ClusterSimilarity(locations, idx(r))]
          IN {SortBySize([k \in 1..Len(order) |-> res(order[k])], 1, 2) : order \in Perms(roots)}

(***************************************************************************)
(* detector.go                                                             *)
(***************************************************************************)
EmptyMap ==
  [h \in {} |-> <<>>]

\* GroupByHash with a fault seeded: a window is filed under the hash of the
\* window one record shorter
GroupByStaleHash(locs) ==
  [h \in {Hash(SubSeq(locs[i].Pattern, 1, Len(locs[i].Pattern) - 1)) : i \in 1..Len(locs)} |->
     SelectSeq(locs, LAMBDA l : Hash(SubSeq(l.Pattern, 1, Len(l.Pattern) - 1)) = h)]

\* a map[uint64][]PatternLocation built by appending locs one by one
GroupByHash(locs) ==
  [h \in {Hash(locs[i].Pattern) : i \in 1..Len(locs)} |->
     SelectSeq(locs, LAMBDA l : Hash(l.Pattern) = h)]

\* Populated with a fault seeded: the threshold test is strict
PopulatedStrict(patterns, minOccur) ==
  [h \in {k \in DOMAIN patterns : Len(patterns[k]) > minOccur} |-> patterns[h]]

\* the buckets with at least minOccur locations
Populated(patterns, minOccur) ==
  [h \in {k \in DOMAIN patterns : Len(patterns[k]) >= minOccur} |-> patterns[h]]

\* BaseLocations with a fault seeded: LineStart is the position of the
\* record among the records, not its line number
BaseLocationsByPosition(fd, filename, minSize) ==
  [k \in 1..Max(Len(fd[filename]) - minSize + 1, 0) |->
     [Filename   |-> filename,
      LineStart  |-> k,
      EntryIndex |-> k - 1,
      Pattern    |-> SubSeq(fd[filename], k, k + minSize - 1)]]

\* the windows of one file, as one worker appends them
BaseLocations(fd, filename, minSize) ==
  LET entries == fd[filename]
      n       == Len(entries)
  IN [k \in 1..Max(n - minSize + 1, 0) |->
        [Filename   |-> filename,
         LineStart  |-> entries[k].LineNumber,
         EntryIndex |-> k - 1,
         Pattern    |-> SubSeq(entries, k, k + minSize - 1)]]

\* generateBasePatternsParallel, the files being taken and merged in fileOrder
generateBasePatternsParallel(fd, fileOrder, minSize) ==
  GroupByHash(Concat([k \in 1..Len(fileOrder) |-> BaseLocations(fd, fileOrder[k], minSize)]))

\* ExtendChunk with a fault seeded: a window that runs past the end of its
\* file is cut at the end instead of being dropped
ExtendChunkPastEnd(fd, locs, newLen) ==
  [k \in 1..Len(locs) |->
     [Filename   |-> locs[k].Filename,
      LineStart  |-> locs[k].LineStart,
      EntryIndex |-> locs[k].EntryIndex,
      Pattern    |-> SubSeq(fd[locs[k].Filename], locs[k].EntryIndex + 1,
                            Min(locs[k].EntryIndex + newLen, Len(fd[locs[k].Filename])))]]

\* what one extension worker appends for its chunk
ExtendChunk(fd, locs, newLen) ==
  LET F[k \in 0..Len(locs)] ==
        IF k = 0 THEN <<>>
        ELSE LET loc     == locs[k]
                 entries == fd[loc.Filename]
                 endIdx  == loc.EntryIndex + newLen
             IN IF endIdx > Len(entries) THEN F[k-1]
                ELSE Append(F[k-1],
                       [Filename   |-> loc.Filename,
                        LineStart  |-> loc.LineStart,
                        EntryIndex |-> loc.EntryIndex,
                        Pattern    |-> SubSeq(entries, loc.EntryIndex + 1, endIdx)])
  IN F[Len(locs)]

\* Chunks with a fault seeded: a chunk after the first starts one location late
ChunksWithGap(allLocs, numWorkers) ==
  LET chunkSize == (Len(allLocs) + numWorkers - 1) \div numWorkers
      count     == IF Len(allLocs) = 0 THEN 0
                   ELSE (Len(allLocs) + chunkSize - 1) \div chunkSize
  IN [i \in 1..Min(count, numWorkers) |->
        SubSeq(allLocs, (i - 1) * chunkSize + (IF i > 1 THEN 2 ELSE 1),
               Min(i * chunkSize, Len(allLocs)))]

\* the chunks allLocs is partitioned into
Chunks(allLocs, numWorkers) ==
  LET chunkSize == (Len(allLocs) + numWorkers - 1) \div numWorkers
      count     == IF Len(allLocs) = 0 THEN 0
                   ELSE (Len(allLocs) + chunkSize - 1) \div chunkSize
  IN [i \in 1..Min(count, numWorkers) |->
        SubSeq(allLocs, (i - 1) * chunkSize + 1, Min(i * chunkSize, Len(allLocs)))]

\* extendPatternsParallel: every result that the iteration order of survivors
\* and the order of the workers' merges allow
extendPatternsParallel(surv, fd, newLen, numWorkers) ==
  IF DOMAIN surv = {} THEN {EmptyMap}
  ELSE UNION {
         LET allLocs == Concat([k \in 1..Len(keyOrder) |-> surv[keyOrder[k]]])
             chunks  == Chunks(allLocs, numWorkers)
         IN {GroupByHash(Concat([k \in 1..Len(chunks) |->
                                   ExtendChunk(fd, chunks[mergeOrder[k]], newLen)]))
               : mergeOrder \in Perms(1..Len(chunks))}
         : keyOrder \in Perms(DOMAIN surv)}

\* SortByEntryIndex with a fault seeded: the locations of a file are swept unsorted
SortByEntryIndexMissing(locs) ==
  locs

\* sort.Slice by EntryIndex (the indices of one file are distinct)
RECURSIVE SortByEntryIndex(_)
SortByEntryIndex(locs) ==
  IF locs = <<>> THEN <<>>
  ELSE LET m == CHOOSE i \in 1..Len(locs) :
                  \A j \in 1..Len(locs) : locs[i].EntryIndex <= locs[j].EntryIndex
       IN <<locs[m]>> \o SortByEntryIndex(SelectIdx(locs, (1..Len(locs)) \ {m}))

\* KeepNonOverlapping with a fault seeded: the cursor advances by one record, not by patternLen
KeepNonOverlappingByOne(fileLocs, patternLen) ==
  LET F[k \in 0..Len(fileLocs)] ==
        IF k = 0 THEN [result |-> <<>>, lastEnd |-> 0 - 1]
        ELSE IF fileLocs[k].EntryIndex >= F[k-1].lastEnd
             THEN [result  |-> Append(F[k-1].result, fileLocs[k]),
                   lastEnd |-> fileLocs[k].EntryIndex + 1]
             ELSE F[k-1]
  IN F[Len(fileLocs)].result

\* the sweep with the lastEnd cursor
KeepNonOverlapping(fileLocs, patternLen) ==
  LET F[k \in 0..Len(fileLocs)] ==
        IF k = 0 THEN [result |-> <<>>, lastEnd |-> 0 - 1]
        ELSE IF fileLocs[k].EntryIndex >= F[k-1].lastEnd
             THEN [result  |-> Append(F[k-1].result, fileLocs[k]),
                   lastEnd |-> fileLocs[k].EntryIndex + patternLen]
             ELSE F[k-1]
  IN F[Len(fileLocs)].result

\* filterOverlappingOccurrences: every result the iteration order of byFile allows
filterOverlappingOccurrences(locs, patternLen) ==
  IF Len(locs) <= 1 THEN {locs}
  ELSE LET names      == {locs[i].Filename : i \in 1..Len(locs)}
           byFile(f)  == SelectSeq(locs, LAMBDA l : l.Filename = f)
           perFile(f) == IF Len(byFile(f)) = 1 THEN byFile(f)
                         ELSE KeepNonOverlapping(SortByEntryIndex(byFile(f)), patternLen)
       IN {Concat([k \in 1..Len(order) |-> perFile(order[k])]) : order \in Perms(names)}

\* OccurrenceKeys with a fault seeded: the key holds the line number, not the entry index
OccurrenceKeysByLine(patterns) ==
  UNION {{<<patterns[h][i].Filename, patterns[h][i].LineStart>> : i \in 1..Len(patterns[h])}
           : h \in DOMAIN patterns}

\* the keys of grewToChild: the occurrences of the surviving next generation
OccurrenceKeys(patterns) ==
  UNION {{<<patterns[h][i].Filename, patterns[h][i].EntryIndex>> : i \in 1..Len(patterns[h])}
           : h \in DOMAIN patterns}

\* NotGrown with a fault seeded: the occurrences that grew are not filtered out
NotGrownKeepsAll(locs, grewToChild) ==
  locs

\* the occurrences of a bucket of the previous generation that did not grow
NotGrown(locs, grewToChild) ==
  SelectSeq(locs, LAMBDA l : <<l.Filename, l.EntryIndex>> \notin grewToChild)

\* FrozenBucket with a fault seeded: overlaps are pruned whatever keepOverlaps says
FrozenBucketAlwaysPruned(locs, grewToChild, prevLen, keepOverlaps) ==
  filterOverlappingOccurrences(NotGrown(locs, grewToChild), prevLen)

\* the buckets the freeze loop may write for one bucket of previousGen
FrozenBucket(locs, grewToChild, prevLen, keepOverlaps) ==
  IF keepOverlaps THEN {NotGrown(locs, grewToChild)}
  ELSE filterOverlappingOccurrences(NotGrown(locs, grewToChild), prevLen)

\* the maps that "add previous generation to results" may leave in allPatterns
RECURSIVE FreezeInto(_, _, _, _, _, _)
FreezeInto(all, prev, grewToChild, prevLen, keepOverlaps, minOccur) ==
  IF DOMAIN prev = {} THEN {all}
  ELSE LET hash == CHOOSE h \in DOMAIN prev : TRUE
           rest == [h \in DOMAIN prev \ {hash} |-> prev[h]]
       IN UNION {
            FreezeInto(IF Len(filteredLocs) >= minOccur
                       THEN [h \in DOMAIN all \cup {hash} |->
                               IF h = hash THEN filteredLocs ELSE all[h]]
                       ELSE all,
                       rest, grewToChild, prevLen, keepOverlaps, minOccur)
            : filteredLocs \in FrozenBucket(prev[hash], grewToChild, prevLen, keepOverlaps)}

(***************************************************************************)
(* filter.go: FilterPatterns                                               *)
(***************************************************************************)
\* no .quickdup/<strategy>-ignore.json in the directory
NoIgnoreFile ==
  [nil |-> TRUE]

\* the hexadecimal digits a string starts with
RECURSIVE HexPrefix(_)
HexPrefix(str) ==
  IF str = <<>> \/ Head(str) \notin Range(HexDigits) THEN <<>>
  ELSE <<Head(str)>> \o HexPrefix(Tail(str))

RECURSIVE StripZeros(_)
StripZeros(digits) ==
  IF digits # <<>> /\ Head(digits) = "0" THEN StripZeros(Tail(digits)) ELSE digits

HexValue(c) ==
  (CHOOSE i \in 1..16 : HexDigits[i] = c) - 1

\* fmt.Sscanf(hashStr, "%x", &hash) on a string without blanks: the digits
\* the string starts with, an error if there is none or the value needs more
\* than 64 bits
SscanfHex(hashStr) ==
  LET digits == StripZeros(HexPrefix(hashStr))
      padded == [k \in 1..16 |-> IF k <= 16 - Len(digits) THEN "0"
                                 ELSE digits[k - (16 - Len(digits))]]
  IN IF HexPrefix(hashStr) = <<>> \/ Len(digits) > 16 THEN [err |-> TRUE]
     ELSE [err  |-> FALSE,
           hash |-> [i \in 1..4 |->
                       IF i = 4 THEN HexValue(padded[1])
                       ELSE LET at == 17 - 5 * i
                            IN 65536 * HexValue(padded[at]) + 4096 * HexValue(padded[at + 1])
                               + 256 * HexValue(padded[at + 2]) + 16 * HexValue(padded[at + 3])
                               + HexValue(padded[at + 4])]]

\* LoadIgnoredHashes, ignored being the "ignored" list of the ignore file
LoadIgnoredHashes(ignored) ==
  IF ignored = NoIgnoreFile THEN {}
  ELSE {SscanfHex(ignored[k]).hash : k \in {j \in 1..Len(ignored) : ~SscanfHex(ignored[j]).err}}

\* IsBlocked with a fault seeded: only the block list of the strategy is looked up
IsBlockedByStrategyOnly(strategy, hash, config) ==
  hash \in BlockedHashes(strategy)

\* first pass: blockedHashes[hash] || config.UserIgnored[hash]
IsBlocked(strategy, hash, config) ==
  \/ hash \in BlockedHashes(strategy)
  \/ (config.UserIgnored # {} /\ Sum64(hash) \in config.UserIgnored)

\* the comparison of the final sort.Slice
MatchLess(a, b) ==
  IF a.Score # b.Score THEN a.Score > b.Score ELSE HashLess(a.Hash, b.Hash)

\* sort.Slice on fewer than 12 elements is an insertion sort
InsertionSort(data) ==
  LET F[k \in 0..Len(data)] ==
        IF k = 0 THEN <<>>
        ELSE LET x    == data[k]
                 stop == {j \in 1..(k-1) : ~MatchLess(x, F[k-1][j])}
                 pos  == IF stop = {} THEN 0 ELSE CHOOSE j \in stop : \A i \in stop : i <= j
             IN SubSeq(F[k-1], 1, pos) \o <<x>> \o SubSeq(F[k-1], pos + 1, k - 1)
  IN F[Len(data)]

\* the keys of a map in ascending order of the sums
RECURSIVE SortedKeys(_)
SortedKeys(keys) ==
  IF keys = {} THEN <<>>
  ELSE LET m == CHOOSE k \in keys : \A o \in keys \ {k} : HashLess(k, o)
       IN <<m>> \o SortedKeys(keys \ {m})

\* MatchesOfClusters with a fault seeded: the size of a cluster is not tested
MatchesOfClustersNoFloor(strategy, hash, pattern, clusters, config) ==
  LET F[k \in 0..Len(clusters)] ==
        IF k = 0 THEN <<>>
        ELSE LET cluster == clusters[k]
                 score   == Score(strategy, pattern, cluster.Similarity) * Len(cluster.Locations)
             IN IF score < config.MinScore
                THEN F[k-1]
                ELSE Append(F[k-1],
                       [Hash       |-> hash,
                        Locations  |-> cluster.Locations,
                        Pattern    |-> cluster.Locations[1].Pattern,
                        Similarity |-> cluster.Similarity,
                        Score      |-> score])
  IN F[Len(clusters)]

\* third pass, for one candidate and one clustering of it
MatchesOfClusters(strategy, hash, pattern, clusters, config) ==
  LET F[k \in 0..Len(clusters)] ==
        IF k = 0 THEN <<>>
        ELSE LET cluster == clusters[k]
                 score   == Score(strategy, pattern, cluster.Similarity) * Len(cluster.Locations)
             IN IF Len(cluster.Locations) < config.MinOccur \/ score < config.MinScore
                THEN F[k-1]
                ELSE Append(F[k-1],
                       [Hash       |-> hash,
                        Locations  |-> cluster.Locations,
                        Pattern    |-> cluster.Locations[1].Pattern,
                        Similarity |-> cluster.Similarity,
                        Score      |-> score])
  IN F[Len(clusters)]

\* the unsorted match lists, the candidates taken in the order of hashes
\* (the final sort is stable, and only matches of one candidate can tie)
RECURSIVE CollectMatches(_, _, _, _)
CollectMatches(strategy, patterns, hashes, config) ==
  IF hashes = <<>> THEN {<<>>}
  ELSE LET hash == Head(hashes)
           locs == patterns[hash]
       IN {MatchesOfClusters(strategy, hash, locs[1].Pattern, clusters, config) \o rest :
             clusters \in clusterBySimilarity(locs, config.MinSimilarity),
             rest \in CollectMatches(strategy, patterns, Tail(hashes), config)}

\* FilterPatterns: every list of matches it may return
FilterPatterns(strategy, patterns, config) ==
  LET candidates == {h \in DOMAIN patterns :
                       /\ ~IsBlocked(strategy, h, config)
                       /\ Len(patterns[h]) >= config.MinOccur}
  IN {InsertionSort(ms) :
        ms \in CollectMatches(strategy, patterns, SortedKeys(candidates), config)}

(***************************************************************************)
(* output.go: WriteJSONResults                                             *)
(***************************************************************************)
JSONOutput(ms) ==
  [total_patterns |-> Len(ms),
   patterns |-> [k \in 1..Len(ms) |->
      [hash        |-> Hex16(Sum64(ms[k].Hash)),
       score       |-> ms[k].Score,
       lines       |-> Len(ms[k].Pattern),
       similarity  |-> ms[k].Similarity,
       occurrences |-> Len(ms[k].Locations),
       locations   |-> [i \in 1..Len(ms[k].Locations) |->
                          [filename   |-> ms[k].Locations[i].Filename,
                           line_start |-> ms[k].Locations[i].LineStart]]]]]

(***************************************************************************)
(* cache.go                                                                *)
(***************************************************************************)
cacheVersion == 1

NoCache ==
  [nil |-> TRUE]

\* a cache file gob cannot decode
CorruptBlob ==
  [corrupt |-> TRUE]

\* what gob writes of a WordIndentEntry: its exported fields
GobEncodeEntry(e) ==
  [LineNumber |-> e.LineNumber, IndentDelta |-> e.IndentDelta,
   Word |-> e.Word, SourceLine |-> e.SourceLine]

\* what gob reads back: the unexported hashBytes stays nil
GobDecodeEntry(g) ==
  [LineNumber |-> g.LineNumber, IndentDelta |-> g.IndentDelta,
   Word |-> g.Word, SourceLine |-> g.SourceLine, hashBytes |-> <<>>]

\* loadCache, blob being the content of the cache file (NoCache: no file)
loadCache(blob, strategyName) ==
  IF strategyName # WordIndent THEN NoCache
  ELSE IF blob = NoCache THEN NoCache
  ELSE IF blob = CorruptBlob THEN NoCache
  ELSE IF blob.Version # cacheVersion THEN NoCache
  ELSE [Version |-> blob.Version,
        Files   |-> [f \in DOMAIN blob.Files |->
                       [ModTime |-> blob.Files[f].ModTime,
                        Entries |-> [i \in 1..Len(blob.Files[f].Entries) |->
                                       GobDecodeEntry(blob.Files[f].Entries[i])]]]]

\* saveCache: the content of the cache file afterwards
saveCache(blob, strategyName, dsk, fd) ==
  IF strategyName # WordIndent THEN blob
  ELSE [Version |-> cacheVersion,
        Files   |-> [f \in DOMAIN dsk \cap DOMAIN fd |->
                       [ModTime |-> dsk[f].modTime,
                        Entries |-> [i \in 1..Len(fd[f]) |-> GobEncodeEntry(fd[f][i])]]]]

\* IsCacheHit with a fault seeded: the modification time is not compared
IsCacheHitAnyTime(cache, dsk, path) ==
  /\ cache # NoCache
  /\ path \in DOMAIN cache.Files

\* does parseFilesWithCache take the file from the cache
IsCacheHit(cache, dsk, path) ==
  /\ cache # NoCache
  /\ path \in DOMAIN cache.Files
  /\ dsk[path].modTime = cache.Files[path].ModTime

\* ParsedAfresh with a fault seeded: a file counts before it is read
ParsedAfreshUnread(cache, dsk) ==
  {path \in DOMAIN dsk : ~IsCacheHit(cache, dsk, path)}

\* the files parseFilesWithCache parses and counts as misses: those not taken
\* from the cache whose os.ReadFile succeeds
ParsedAfresh(cache, dsk) ==
  {path \in DOMAIN dsk : ~IsCacheHit(cache, dsk, path) /\ dsk[path].readable}

\* parseFilesWithCache: the map it returns
parseFilesWithCache(strategy, dsk, cache) ==
  [path \in {f \in DOMAIN dsk : IsCacheHit(cache, dsk, f)} \cup ParsedAfresh(cache, dsk) |->
     IF IsCacheHit(cache, dsk, path) THEN cache.Files[path].Entries
     ELSE parseFile(strategy, dsk[path].data)]

(***************************************************************************)
(* output.go                                                               *)
(***************************************************************************)
\* PrintGitHubAnnotations: file, line and endLine of the annotation of each match
PrintGitHubAnnotations(ms) ==
  [k \in 1..Len(ms) |->
     LET loc == ms[k].Locations[1]
     IN [file    |-> loc.Filename,
         line    |-> loc.LineStart,
         endLine |-> loc.LineStart + Len(ms[k].Pattern) - 1,
         lines   |-> Len(ms[k].Pattern)]]

\* the 1-based indices of the lines both loops of readSourceLines visit
ReadRange(allLines, startLine, count) ==
  {i \in startLine..(startLine + count - 1) : 1 <= i /\ i <= Len(allLines)}

\* "find minimum indent for normalization"
MinIndent(allLines, startLine, count) ==
  LET indents == {calculateIndent(allLines[i]) :
                    i \in {j \in ReadRange(allLines, startLine, count) :
                             ~isWhitespaceOnly(allLines[j])}}
  IN IF indents = {} THEN 0
     ELSE CHOOSE m \in indents : \A o \in indents : m <= o

\* "strip minimum indent": the line without its first start bytes
StripIndent(line, minIndent) ==
  LET F[j \in 0..Len(line)] ==
        IF j = 0 THEN [stripped |-> 0, start |-> 0, stop |-> FALSE]
        ELSE IF F[j-1].stop THEN F[j-1]
        ELSE IF F[j-1].stripped >= minIndent
             THEN [stripped |-> F[j-1].stripped, start |-> j - 1, stop |-> TRUE]
        ELSE IF line[j] = " "
             THEN [stripped |-> F[j-1].stripped + 1, start |-> j, stop |-> FALSE]
        ELSE IF line[j] = "\t"
             THEN [stripped |-> F[j-1].stripped + 4, start |-> j, stop |-> FALSE]
        ELSE [stripped |-> F[j-1].stripped, start |-> j - 1, stop |-> TRUE]
  IN SubSeq(line, F[Len(line)].start + 1, Len(line))

\* the one line readSourceLines returns for a file it cannot read
ReadErrorLines ==
  << <<"/", "/", " ", "E", "r", "r", "o", "r">> >>

\* readSourceLines: count lines from startLine on, the minimum indent stripped
readSourceLines(file, startLine, count) ==
  IF ~file.readable THEN ReadErrorLines
  ELSE LET allLines == SplitLines(file.data)
           minInd   == MinIndent(allLines, startLine, count)
           last     == Min(startLine + count - 1, Len(allLines))
       IN [k \in 1..Max(last - startLine + 1, 0) |->
             StripIndent(allLines[startLine + k - 1], minInd)]

\* PrintDetailedMatches: the source lines shown for each occurrence of each match
PrintDetailedMatches(ms, dsk) ==
  [k \in 1..Len(ms) |->
     [j \in 1..Len(ms[k].Locations) |->
        readSourceLines(dsk[ms[k].Locations[j].Filename],
                        ms[k].Locations[j].LineStart, Len(ms[k].Pattern))]]

(***************************************************************************)
(* Inputs of the model                                                     *)
(***************************************************************************)
\* the line texts the small files are made of
Pool ==
  { <<"x">>,
    <<"x", " ", "p">>,
    <<" ", "y">>,
    <<>> }

\* the contents with exactly n lines from Pool
ContentsOf(n) ==
  {JoinLines(ls) : ls \in [1..n -> Pool]}

OnDisk(data) ==
  [data |-> data, modTime |-> 1, readable |-> TRUE]

\* one or two files with at most MaxLines lines in all
SmallInputs ==
  {[f \in {"a.go"} |-> OnDisk(c)] : c \in UNION {ContentsOf(n) : n \in 1..MaxLines}}
  \cup
  UNION {{[f \in {"a.go", "b.go"} |-> OnDisk(IF f = "a.go" THEN ca ELSE cb)] :
            ca \in ContentsOf(nm[1]), cb \in ContentsOf(nm[2])}
           : nm \in {p \in (1..MaxLines) \X (1..MaxLines) : p[1] + p[2] <= MaxLines}}

\* "if x {" / "    return y" / "}" / "do z" / "done"
FiveLines ==
  << <<"i", "f", " ", "x", " ", "{">>,
     <<" ", " ", " ", " ", "r", "e", "t", "u", "r", "n", " ", "y">>,
     <<"}">>,
     <<"d", "o", " ", "z">>,
     <<"d", "o", "n", "e">> >>

\* Scenario B: the five lines at 1-5 and 8-12, a blank and an unrelated line between
ScenarioB ==
  [f \in {"a.go"} |->
     OnDisk(JoinLines(FiveLines \o << <<>>, <<"o", "t", "h", "e", "r", " ", "w">> >> \o FiveLines))]

\* Scenario C: six times "x := 0"
ScenarioC ==
  [f \in {"a.go"} |->
     OnDisk(JoinLines([i \in 1..6 |-> <<"x", " ", ":", "=", " ", "0">>]))]

\* Scenario E: three "}" lines in each of two files, at one indent
ScenarioE ==
  [f \in {"a.go", "b.go"} |->
     OnDisk(JoinLines(<< <<"}">>, <<"}">>, <<"}">> >>))]

\* Scenario E, the three "}" closing nested blocks (indents 8, 4, 0)
ScenarioENested ==
  [f \in {"a.go", "b.go"} |->
     OnDisk(JoinLines(<< <<" ", " ", " ", " ", " ", " ", " ", " ", "}">>,
                         <<" ", " ", " ", " ", "}">>,
                         <<"}">> >>))]

\* three one-line files: "(p", "(p q", "(q"
ChainInput ==
  [f \in {"a.go", "b.go", "c.go"} |->
     OnDisk(IF f = "a.go" THEN <<"(", "p">>
            ELSE IF f = "b.go" THEN <<"(", "p", " ", "q">>
            ELSE <<"(", "q">>)]

\* three one-line files: "(p", "(p", "(q"
SplitInput ==
  [f \in {"a.go", "b.go", "c.go"} |->
     OnDisk(IF f = "c.go" THEN <<"(", "q">> ELSE <<"(", "p">>)]

\* two files: "(p" / "z" / "(p" and "(q" / "y" / "(q"
TwoClustersInput ==
  [f \in {"a.go", "b.go"} |->
     OnDisk(IF f = "a.go" THEN JoinLines(<< <<"(", "p">>, <<"z">>, <<"(", "p">> >>)
            ELSE JoinLines(<< <<"(", "q">>, <<"y">>, <<"(", "q">> >>))]

\* two files: "x" / "x" / "x" and "x" / "x"
OverlapInput ==
  [f \in {"a.go", "b.go"} |->
     OnDisk(IF f = "a.go" THEN JoinLines(<< <<"x">>, <<"x">>, <<"x">> >>)
            ELSE JoinLines(<< <<"x">>, <<"x">> >>))]

\* three files: "x" / " y", "x" / " y" and "x"
SiblingInput ==
  [f \in {"a.go", "b.go", "c.go"} |->
     OnDisk(IF f = "c.go" THEN <<"x">> ELSE JoinLines(<< <<"x">>, <<" ", "y">> >>))]

Half ==
  <<1, 2>>

\* two files: "a" / "}" / "}" at the indents 8, 4, 0
BlockedInput ==
  [f \in {"a.go", "b.go"} |->
     OnDisk(JoinLines(<< <<" ", " ", " ", " ", " ", " ", " ", " ", "a">>,
                         <<" ", " ", " ", " ", "}">>,
                         <<"}">> >>))]

\* ignore files: the sum of the one-line window "x" (delta 0), after an entry
\* that does not parse and with text behind the digits
IgnoreX ==
  << <<"z", "z">>,
     <<"8", "6", "b", "1", "7", "7", "f", "a", "e", "c", "3", "e", "6", "d", "c", "b", "z">> >>

\* the sums of the three-line windows of BlockedInput under the two strategies
IgnoreBlockedInput ==
  << <<"a", "d", "3", "d", "d", "a", "a", "3", "5", "a", "9", "1", "2", "2", "9", "1">>,
     <<"5", "b", "a", "c", "5", "8", "0", "f", "7", "1", "2", "2", "4", "f", "e">> >>

\* two files "x" / "x", of which those in unreadable cannot be read
TwoFiles(unreadable) ==
  [f \in {"a.go", "b.go"} |->
     [OnDisk(JoinLines(<< <<"x">>, <<"x">> >>)) EXCEPT !.readable = f \notin unreadable]]

UnreadableInputs ==
  {TwoFiles({"a.go"}), TwoFiles({"b.go"}), TwoFiles({"a.go", "b.go"})}

\* an indented line, a line with a deny-listed first word, a comment, a line
SkipWordInput ==
  [f \in {"a.go"} |->
     OnDisk(JoinLines(<< <<" ", "y">>, <<"i", "m", "p", "o", "r", "t", " ", "x">>,
                         <<"/", "/", "c">>, <<"x">> >>))]

\* the block comment of TestStrategyParityWithDefault between two lines of code
BlockCommentInput ==
  [f \in {"a.go"} |->
     OnDisk(JoinLines(<< <<"x">>, <<"/", "*", " ", "c", " ", "*", "/">>, <<"x">> >>))]

Configs(minSizes, minOccurs, maxSizes, ignoreFiles, workers) ==
  [strategy      : {WordIndent, NormalizedIndent},
   minOccur      : minOccurs,
   minSize       : minSizes,
   maxSize       : maxSizes,
   keepOverlaps  : BOOLEAN,
   minScore      : {0},
   minSimilarity : {Half},
   ignoreFile    : ignoreFiles,
   noCache       : {FALSE},
   numWorkers    : workers]

\* the runs of the model: files on disk and command line
Runs ==
  (SmallInputs \X Configs({1, 2}, {1, 2}, {0}, {NoIgnoreFile}, {1}))
  \cup ({ChainInput, SplitInput, TwoClustersInput, OverlapInput}
          \X Configs({1, 2}, {2, 3}, {0}, {NoIgnoreFile}, {1, 2}))
  \cup ({ScenarioB, ScenarioC, ScenarioE, ScenarioENested}
          \X Configs({3}, {2}, {0, 4}, {NoIgnoreFile}, {1, 2}))
  \cup ({OverlapInput, BlockedInput}
          \X Configs({1, 2}, {2}, {0}, {NoIgnoreFile, IgnoreX, IgnoreBlockedInput}, {1, 2}))
  \cup ({BlockCommentInput, SkipWordInput} \X Configs({1}, {2}, {0}, {NoIgnoreFile}, {1}))
  \cup ({SiblingInput} \X Configs({1}, {2}, {0}, {NoIgnoreFile}, {1}))
  \cup (UnreadableInputs \X Configs({1, 2}, {1, 2}, {0}, {NoIgnoreFile}, {1, 2}))

(***************************************************************************)
(* The state machine                                                       *)
(***************************************************************************)
VARIABLES
  disk,         \* the files found by the walk: path -> [data, modTime]
  flags,        \* the command line and the ignore file
  cacheBlob,    \* the content of .quickdup/<strategy>-cache.gob
  run,          \* 1: the first run, 2: the run after it
  pc,           \* where main is
  fileData,     \* main: fileData
  cacheHits,    \* main: cacheHits
  cacheMisses,  \* main: cacheMisses
  survivors,    \* detectPatterns: survivors
  previousGen,  \* detectPatterns: previousGen
  currentLen,   \* detectPatterns: currentLen
  allPatterns,  \* detectPatterns: allPatterns, then main: patterns
  matches,      \* main: matches
  results       \* what each finished run left: run -> [matches, json, annotations, detail, cacheHits, cacheMisses, files]

vars ==
  <<disk, flags, cacheBlob, run, pc, fileData, cacheHits, cacheMisses,
    survivors, previousGen, currentLen, allPatterns, matches, results>>

Locals0 ==
  /\ fileData = EmptyMap
  /\ cacheHits = 0
  /\ cacheMisses = 0
  /\ survivors = EmptyMap
  /\ previousGen = EmptyMap
  /\ currentLen = 0
  /\ allPatterns = EmptyMap
  /\ matches = <<>>

Init ==
  /\ \E r \in Runs : disk = r[1] /\ flags = r[2]
  /\ cacheBlob = NoCache
  /\ run = 1
  /\ pc = "parse"
  /\ Locals0
  /\ results = [r \in {} |-> 0]

\* the contents of at most MaxBytes bytes made of "/", "*", "x" and newlines
CommentContents ==
  UNION {[1..n -> {"/", "*", "x", "\n"}] : n \in 0..MaxBytes}

\* the runs on one file with such a content
InitComments ==
  /\ \E c \in CommentContents : disk = [f \in {"a.go"} |-> OnDisk(c)]
  /\ flags \in {fl \in Configs({1}, {2}, {0}, {NoIgnoreFile}, {1}) : ~fl.keepOverlaps}
  /\ cacheBlob = NoCache
  /\ run = 1
  /\ pc = "parse"
  /\ Locals0
  /\ results = [r \in {} |-> 0]

FilterConfigOf(fl) ==
  [MinOccur |-> fl.minOccur, MinScore |-> fl.minScore,
   MinSimilarity |-> fl.minSimilarity, UserIgnored |-> LoadIgnoredHashes(fl.ignoreFile)]

\* main, phase 1: loadCache and parseFilesWithCache
ParseFiles ==
  /\ pc = "parse"
  /\ LET cache == IF flags.noCache THEN NoCache ELSE loadCache(cacheBlob, flags.strategy)
         hits  == {f \in DOMAIN disk : IsCacheHit(cache, disk, f)}
     IN /\ fileData' = parseFilesWithCache(flags.strategy, disk, cache)
        /\ cacheHits' = Cardinality(hits)
        /\ cacheMisses' = Cardinality(ParsedAfresh(cache, disk))
  /\ pc' = "save"
  /\ UNCHANGED <<disk, flags, cacheBlob, run, survivors, previousGen, currentLen,
                 allPatterns, matches, results>>

\* main: "save updated cache"
SaveCache ==
  /\ pc = "save"
  /\ cacheBlob' = IF ~flags.noCache /\ cacheMisses > 0
                  THEN saveCache(cacheBlob, flags.strategy, disk, fileData)
                  ELSE cacheBlob
  /\ pc' = "base"
  /\ UNCHANGED <<disk, flags, run, fileData, cacheHits, cacheMisses, survivors,
                 previousGen, currentLen, allPatterns, matches, results>>

\* what an editor that appends the line "x" leaves of a file
Appended(file) ==
  [file EXCEPT !.data = IF file.data = <<>> THEN <<"x">> ELSE file.data \o <<"\n", "x">>,
               !.modTime = file.modTime + 1]

\* the first file of the first run is rewritten after it was parsed and
\* before saveCache stats it
ModifiedBeforeSave ==
  /\ pc = "save"
  /\ run = 1
  /\ flags.strategy = WordIndent
  /\ ~flags.noCache /\ cacheMisses > 0
  /\ \E f \in DOMAIN fileData \cap {"a.go"} :
       /\ disk[f].readable
       /\ disk' = [disk EXCEPT ![f] = Appended(disk[f])]
  /\ cacheBlob' = saveCache(cacheBlob, flags.strategy, disk', fileData)
  /\ pc' = "base"
  /\ UNCHANGED <<flags, run, fileData, cacheHits, cacheMisses, survivors,
                 previousGen, currentLen, allPatterns, matches, results>>

\* detectPatterns, steps 1 and 2
DetectBase ==
  /\ pc = "base"
  /\ \E fileOrder \in Perms(DOMAIN fileData) :
       LET basePatterns == generateBasePatternsParallel(fileData, fileOrder, flags.minSize)
       IN /\ survivors' = Populated(basePatterns, flags.minOccur)
          /\ previousGen' = survivors'
  /\ currentLen' = flags.minSize
  /\ allPatterns' = EmptyMap
  /\ pc' = "grow"
  /\ UNCHANGED <<disk, flags, cacheBlob, run, fileData, cacheHits, cacheMisses,
                 matches, results>>

\* detectPatterns, step 3: one iteration of the grow loop
Grow ==
  /\ pc = "grow"
  /\ DOMAIN survivors # {}
  /\ currentLen' = currentLen + 1
  /\ \E nextPatterns \in extendPatternsParallel(survivors, fileData, currentLen + 1,
                                                flags.numWorkers) :
       /\ survivors' = Populated(nextPatterns, flags.minOccur)
       /\ allPatterns' \in FreezeInto(allPatterns, previousGen, OccurrenceKeys(survivors'),
                                      currentLen, flags.keepOverlaps, flags.minOccur)
       /\ previousGen' = survivors'
  /\ UNCHANGED <<disk, flags, cacheBlob, run, pc, fileData, cacheHits, cacheMisses,
                 matches, results>>

\* detectPatterns returns, main filters and scores
Filter ==
  /\ pc = "grow"
  /\ DOMAIN survivors = {}
  /\ matches' \in FilterPatterns(flags.strategy, allPatterns, FilterConfigOf(flags))
  /\ pc' = "write"
  /\ UNCHANGED <<disk, flags, cacheBlob, run, fileData, cacheHits, cacheMisses,
                 survivors, previousGen, currentLen, allPatterns, results>>

\* main: WriteJSONResults and exit
WriteResults ==
  /\ pc = "write"
  /\ results' = [r \in DOMAIN results \cup {run} |->
                   IF r = run
                   THEN [matches |-> matches, json |-> JSONOutput(matches),
                         annotations |-> PrintGitHubAnnotations(matches),
                         detail |-> PrintDetailedMatches(matches, disk),
                         cacheHits |-> cacheHits, cacheMisses |-> cacheMisses,
                         files |-> Cardinality(DOMAIN fileData)]
                   ELSE results[r]]
  /\ pc' = "done"
  /\ UNCHANGED <<disk, flags, cacheBlob, run, fileData, cacheHits, cacheMisses,
                 survivors, previousGen, currentLen, allPatterns, matches>>

\* the program is started again on the same directory
SecondRun ==
  /\ pc = "done"
  /\ run = 1
  /\ run' = 2
  /\ pc' = "parse"
  /\ fileData' = EmptyMap
  /\ cacheHits' = 0
  /\ cacheMisses' = 0
  /\ survivors' = EmptyMap
  /\ previousGen' = EmptyMap
  /\ currentLen' = 0
  /\ allPatterns' = EmptyMap
  /\ matches' = <<>>
  /\ UNCHANGED <<disk, flags, cacheBlob, results>>

\* the cache file is as the first run wrote it and no file was touched or
\* rewritten since the input was put on disk
Undisturbed ==
  /\ pc = "done"
  /\ run = 1
  /\ cacheBlob \notin {NoCache, CorruptBlob}
  /\ cacheBlob.Version = cacheVersion
  /\ \A f \in DOMAIN disk :
       /\ disk[f].readable
       /\ f \in DOMAIN cacheBlob.Files
       /\ disk[f].modTime = cacheBlob.Files[f].ModTime
       /\ disk[f] = OnDisk(disk[f].data)

\* between the runs: a file gets a new modification time
Touch ==
  /\ Undisturbed
  /\ \E f \in DOMAIN disk :
       disk' = [disk EXCEPT ![f].modTime = disk[f].modTime + 1]
  /\ UNCHANGED <<flags, cacheBlob, run, pc, fileData, cacheHits, cacheMisses, survivors,
                 previousGen, currentLen, allPatterns, matches, results>>

\* between the runs: a file can no longer be read (its modification time stays)
Revoke ==
  /\ Undisturbed
  /\ \E f \in DOMAIN disk :
       disk' = [disk EXCEPT ![f].readable = FALSE]
  /\ UNCHANGED <<flags, cacheBlob, run, pc, fileData, cacheHits, cacheMisses, survivors,
                 previousGen, currentLen, allPatterns, matches, results>>

\* between the runs: the cache file is damaged
CorruptCache ==
  /\ Undisturbed
  /\ cacheBlob' = CorruptBlob
  /\ UNCHANGED <<disk, flags, run, pc, fileData, cacheHits, cacheMisses, survivors,
                 previousGen, currentLen, allPatterns, matches, results>>

\* between the runs: the cache file is one of another format version
VersionDrift ==
  /\ Undisturbed
  /\ cacheBlob' = [cacheBlob EXCEPT !.Version = cacheVersion - 1]
  /\ UNCHANGED <<disk, flags, run, pc, fileData, cacheHits, cacheMisses, survivors,
                 previousGen, currentLen, allPatterns, matches, results>>

Next ==
  \/ Touch
  \/ Revoke
  \/ CorruptCache
  \/ VersionDrift
  \/ ParseFiles
  \/ SaveCache
  \/ ModifiedBeforeSave
  \/ DetectBase
  \/ Grow
  \/ Filter
  \/ WriteResults
  \/ SecondRun

Spec ==
  Init /\ [][Next]_vars

PreparseSpec ==
  InitComments /\ [][Next]_vars

\* the first words of the lines of the files scored by the inlineable strategy
FirstLineWords ==
  accessModifiers \cup {<<"x">>}

LaterLineWords ==
  {<<"{">>, ReturnWord, <<"}">>, <<"x">>}

\* the files of 1..MaxWindow lines, one word per line
InlineableContents ==
  UNION {{JoinLines([i \in 1..n |-> IF i = 1 THEN first ELSE rest[i]]) :
            first \in FirstLineWords, rest \in [2..n -> LaterLineWords]}
           : n \in 1..MaxWindow}

\* the similarities 1/4, 3/4 and 1
Similarities ==
  {<<1, 4>>, <<3, 4>>, One}

InitScore ==
  /\ \E c \in InlineableContents : disk = [f \in {"a.go"} |-> OnDisk(c)]
  /\ flags \in {[fl EXCEPT !.strategy = Inlineable] :
                  fl \in {c \in Configs({3}, {2}, {0}, {NoIgnoreFile}, {1}) :
                            ~c.keepOverlaps /\ c.strategy = WordIndent}}
  /\ cacheBlob = NoCache
  /\ run = 1
  /\ pc = "parse"
  /\ Locals0
  /\ results = [r \in {} |-> 0]

\* parseFile under the inlineable strategy
ParseInlineable ==
  /\ pc = "parse"
  /\ fileData' = [f \in DOMAIN disk |-> parseFileInlineable(disk[f].data)]
  /\ pc' = "score"
  /\ UNCHANGED <<disk, flags, cacheBlob, run, cacheHits, cacheMisses, survivors,
                 previousGen, currentLen, allPatterns, matches, results>>

\* activeStrategy.Score on the records of the file as one window
ScoreInlineable ==
  /\ pc = "score"
  /\ \E similarity \in Similarities :
       matches' = <<[Pattern    |-> fileData["a.go"],
                     Similarity |-> similarity,
                     Score      |-> InlineableScore(fileData["a.go"], similarity)]>>
  /\ pc' = "done"
  /\ UNCHANGED <<disk, flags, cacheBlob, run, fileData, cacheHits, cacheMisses,
                 survivors, previousGen, currentLen, allPatterns, results>>

NextScore ==
  \/ ParseInlineable
  \/ ScoreInlineable

ScoreSpec ==
  InitScore /\ [][NextScore]_vars

(***************************************************************************)
(* Properties                                                              *)
(***************************************************************************)
\* FilterPatterns has returned: matches is its result
Filtered ==
  pc \in {"write", "done"}

\* both runs have finished
BothDone ==
  run = 2 /\ pc = "done"

MatchLen(m) ==
  Len(m.Pattern)

SameStart(l1, l2) ==
  l1.Filename = l2.Filename /\ l1.EntryIndex = l2.EntryIndex

\* the l1 window of length len1 lies inside the l2 window of length len2
Inside(l1, len1, l2, len2) ==
  /\ l1.Filename = l2.Filename
  /\ l2.EntryIndex <= l1.EntryIndex
  /\ l1.EntryIndex + len1 <= l2.EntryIndex + len2

\* a list of matches without the order of the matches and of their locations
MatchSet(ms) ==
  {[hash |-> m.Hash, lines |-> MatchLen(m), score |-> m.Score, similarity |-> m.Similarity,
    locations |-> {<<l.Filename, l.LineStart>> : l \in Range(m.Locations)}] : m \in Range(ms)}

\* the mean of the pairwise Jaccard similarities of the locations of a match
MeanPairwise(m) ==
  ClusterSimilarity(m.Locations, [k \in 1..Len(m.Locations) |-> k - 1])

ScenarioFlags ==
  /\ flags.strategy = NormalizedIndent
  /\ flags.minSize = 3
  /\ flags.minOccur = 2
  /\ flags.minScore = 0
  /\ flags.minSimilarity = Half
  /\ ~flags.keepOverlaps

\* C1: maximality. No emitted match has a location with the same (file, start
\* index) as a location of an emitted match of greater length.
C1_Maximality ==
  Filtered =>
    \A i, j \in 1..Len(matches) :
      MatchLen(matches[i]) < MatchLen(matches[j]) =>
        \A l1 \in Range(matches[i].Locations), l2 \in Range(matches[j].Locations) :
          ~SameStart(l1, l2)

\* C1, witness: a match that was grown beyond min_size is emitted next to a shorter one
C1_Witness ==
  /\ Filtered
  /\ \E i, j \in 1..Len(matches) :
       /\ MatchLen(matches[i]) < MatchLen(matches[j])
       /\ MatchLen(matches[j]) > flags.minSize

\* C2: overlap-freedom. Without keep_overlaps, two locations of one match in
\* the same file are at least the length of the match apart.
C2_OverlapFree ==
  (Filtered /\ ~flags.keepOverlaps) =>
    \A k \in 1..Len(matches) :
      \A a, b \in 1..Len(matches[k].Locations) :
        LET la == matches[k].Locations[a]
            lb == matches[k].Locations[b]
        IN (a # b /\ la.Filename = lb.Filename) =>
             \/ la.EntryIndex + MatchLen(matches[k]) <= lb.EntryIndex
             \/ lb.EntryIndex + MatchLen(matches[k]) <= la.EntryIndex

\* C2, witness: a match is emitted although the file holds a further window
\* with the same hash that overlaps one of its locations (it was pruned)
C2_Witness ==
  /\ Filtered
  /\ ~flags.keepOverlaps
  /\ \E k \in 1..Len(matches) :
       \E l \in Range(matches[k].Locations) :
         \E i \in 0..Len(fileData[l.Filename]) :
           /\ i + MatchLen(matches[k]) <= Len(fileData[l.Filename])
           /\ i # l.EntryIndex
           /\ i < l.EntryIndex + MatchLen(matches[k])
           /\ l.EntryIndex < i + MatchLen(matches[k])
           /\ Hash(SubSeq(fileData[l.Filename], i + 1, i + MatchLen(matches[k]))) = matches[k].Hash
           /\ \A o \in Range(matches[k].Locations) : ~(o.Filename = l.Filename /\ o.EntryIndex = i)

\* C3: average-similarity floor. Every emitted match has a mean pairwise
\* Jaccard similarity of at least min_similarity.
C3_AverageFloor ==
  Filtered =>
    \A k \in 1..Len(matches) : RatGeq(MeanPairwise(matches[k]), flags.minSimilarity)

\* C4: determinism. Two runs over the same files with the same strategy and
\* parameters (normalized-indent, which bypasses the cache, so that both runs
\* read the same inputs) write the same results JSON.
C4_Determinism ==
  (BothDone /\ flags.strategy = NormalizedIndent) => results[1].json = results[2].json

\* C5: the order (score descending, hash ascending) fixes one unique order of
\* the matches: the list is sorted, and no two matches tie on (score, hash).
C5_UniqueOrder ==
  Filtered =>
    \A i, j \in 1..Len(matches) : i < j => MatchLess(matches[i], matches[j])

\* C6: cache round-trip. A second run in which every file is a cache hit
\* produces the matches of the first run.
C6_CacheRoundTrip ==
  (BothDone /\ flags.strategy = WordIndent) =>
    /\ results[2].cacheHits = Cardinality(DOMAIN disk)
    /\ MatchSet(results[2].matches) = MatchSet(results[1].matches)

C8_ScenarioC ==
  (Filtered /\ disk = ScenarioC /\ ScenarioFlags) =>
    /\ Len(matches) = 1
    /\ {l.LineStart : l \in Range(matches[1].Locations)} = {1, 4}

\* C9: scenario B. The five lines at 1-5 and 8-12 yield exactly one match of
\* length 5, at lines 1 and 8, and no match of length 3 or 4 with one of its starts.
C9_ScenarioB ==
  (Filtered /\ disk = ScenarioB /\ ScenarioFlags) =>
    /\ Cardinality({k \in 1..Len(matches) : MatchLen(matches[k]) = 5}) = 1
    /\ \A k \in 1..Len(matches) :
         MatchLen(matches[k]) = 5 =>
           /\ {l.LineStart : l \in Range(matches[k].Locations)} = {1, 8}
           /\ \A j \in 1..Len(matches) :
                MatchLen(matches[j]) \in {3, 4} =>
                  \A l1 \in Range(matches[j].Locations), l2 \in Range(matches[k].Locations) :
                    ~SameStart(l1, l2)

\* C9, witness: scenario B has been filtered and a match of length 5 is reported
C9_Witness ==
  /\ Filtered
  /\ disk = ScenarioB
  /\ ScenarioFlags
  /\ \E k \in 1..Len(matches) : MatchLen(matches[k]) = 5

\* C10 as stated: no emitted pattern has all of its occurrences lying inside
\* occurrences of one emitted longer pattern.
C10_NoAbsorbed_Original ==
  Filtered =>
    \A i, j \in 1..Len(matches) :
      MatchLen(matches[i]) < MatchLen(matches[j]) =>
        \E l1 \in Range(matches[i].Locations) :
          \A l2 \in Range(matches[j].Locations) :
            ~Inside(l1, MatchLen(matches[i]), l2, MatchLen(matches[j]))

\* C10 amended: no emitted pattern has all of its occurrences starting where
\* occurrences of one emitted longer pattern start (being prefixes of them).
C10_NoAbsorbedPrefix ==
  Filtered =>
    \A i, j \in 1..Len(matches) :
      MatchLen(matches[i]) < MatchLen(matches[j]) =>
        \E l1 \in Range(matches[i].Locations) :
          \A l2 \in Range(matches[j].Locations) : ~SameStart(l1, l2)

\* C10, witness: a shorter pattern is emitted whose occurrences all lie inside
\* occurrences of an emitted longer one, starting later
C10_Witness ==
  /\ Filtered
  /\ \E i, j \in 1..Len(matches) :
       /\ MatchLen(matches[i]) < MatchLen(matches[j])
       /\ \A l1 \in Range(matches[i].Locations) :
            \E l2 \in Range(matches[j].Locations) :
              /\ Inside(l1, MatchLen(matches[i]), l2, MatchLen(matches[j]))
              /\ l2.EntryIndex < l1.EntryIndex

\* C11: Scenario E. Three "}" lines in two files give no match under the
\* scenario's flags: the window of the three records has the sum of the
\* "} } }" entry of the block list.
C11_ScenarioE ==
  (Filtered /\ disk \in {ScenarioE, ScenarioENested} /\ ScenarioFlags) =>
    /\ matches = <<>>
    /\ \A f \in DOMAIN fileData :
         Len(fileData[f]) = 3 => Hash(fileData[f]) \in BlockedHashes(flags.strategy)

\* the relation "pairwise Jaccard similarity >= min_similarity" of the claims
Related(l1, l2) ==
  RatGeq(tokenSimilarity(tokenizePattern(l1.Pattern), tokenizePattern(l2.Pattern)),
         flags.minSimilarity)

\* the members of bucket reachable from S along Related
RECURSIVE Closure(_, _)
Closure(S, bucket) ==
  LET T == S \cup {l \in bucket : \E s \in S : Related(s, l)}
  IN IF T = S THEN S ELSE Closure(T, bucket)

\* the sum of the similarities of the pairs ps of positions of locs
RECURSIVE SumOfPairs(_, _)
SumOfPairs(ps, locs) ==
  IF ps = {} THEN <<0, 1>>
  ELSE LET p == CHOOSE q \in ps : TRUE
       IN RatAdd(tokenSimilarity(tokenizePattern(locs[p[1]].Pattern),
                                 tokenizePattern(locs[p[2]].Pattern)),
                 SumOfPairs(ps \ {p}, locs))

C13_OccurrenceFloor ==
  Filtered =>
    \A k \in 1..Len(matches) : Len(matches[k].Locations) >= flags.minOccur

\* C13, witness: a bucket was split by the clustering, one cluster is emitted
\* and a member of the bucket is in no emitted match
C13_Witness ==
  /\ Filtered
  /\ flags.minOccur >= 2
  /\ \E k \in 1..Len(matches) :
       \E l \in Range(allPatterns[matches[k].Hash]) :
         \A j \in 1..Len(matches) : l \notin Range(matches[j].Locations)

\* the sums in the block list of each strategy
BlockedSums ==
  [s \in {WordIndent, NormalizedIndent} |-> {Sum64(b) : b \in BlockedHashes(s)}]

\* C14: block-list respect. No match returned by FilterPatterns has a sum
\* that is in the block list of the strategy or among the user-ignored sums
\* loaded from the ignore file.
C14_BlockListRespect ==
  Filtered =>
    \A k \in 1..Len(matches) :
      LET sum == Sum64(matches[k].Hash)
      IN /\ sum \notin BlockedSums[flags.strategy]
         /\ sum \notin LoadIgnoredHashes(flags.ignoreFile)

\* C14, witness: detectPatterns returned a bucket of the block list and a
\* user-ignored bucket, both with min_occur locations
C14_Witness ==
  /\ Filtered
  /\ \E h \in DOMAIN allPatterns :
       /\ h \in BlockedHashes(flags.strategy)
       /\ Len(allPatterns[h]) >= flags.minOccur
  /\ \E h \in DOMAIN allPatterns :
       /\ Sum64(h) \in LoadIgnoredHashes(flags.ignoreFile)
       /\ Len(allPatterns[h]) >= flags.minOccur

\* C15: canonical hash-contribution bytes. Every line record handed to the
\* detector, parsed or loaded from the cache, has the bytes NewWordIndentEntry
\* builds for the same indent delta and first word; so two records with equal
\* payloads have equal bytes.
C15_CanonicalBytes ==
  \A f \in DOMAIN fileData :
    \A i \in 1..Len(fileData[f]) :
      fileData[f][i].hashBytes =
        NewWordIndentEntry(fileData[f][i].IndentDelta, fileData[f][i].Word).hashBytes

\* the files of the cache file that parseFilesWithCache may reuse: the blob
\* decodes, has the current version, and holds the file with its current
\* modification time
ValidEntries ==
  IF cacheBlob \in {NoCache, CorruptBlob} THEN {}
  ELSE IF cacheBlob.Version # cacheVersion THEN {}
  ELSE {f \in DOMAIN disk \cap DOMAIN cacheBlob.Files :
          cacheBlob.Files[f].ModTime = disk[f].modTime}

\* the parse of a word-indent run is over and the cache file is still the one it loaded
ParsedWithCache ==
  /\ pc = "save"
  /\ flags.strategy = WordIndent
  /\ ~flags.noCache

\* C16: cache validity. A file's records are taken from the cache iff the
\* blob has the current version and the entry's stored modification time is
\* the file's current one; every other file is parsed afresh; after a decode
\* failure or a version mismatch every file is parsed and none counts as a hit.
C16_CacheValidity ==
  ParsedWithCache =>
    /\ \A f \in DOMAIN disk :
         IF f \in ValidEntries
         THEN fileData[f] = [i \in 1..Len(cacheBlob.Files[f].Entries) |->
                               GobDecodeEntry(cacheBlob.Files[f].Entries[i])]
         ELSE disk[f].readable => fileData[f] = parseFile(flags.strategy, disk[f].data)
    /\ cacheHits = Cardinality(ValidEntries)
    /\ cacheMisses = Cardinality({f \in DOMAIN disk \ ValidEntries : disk[f].readable})
    /\ (cacheBlob = CorruptBlob \/ (cacheBlob # NoCache /\ cacheBlob.Version # cacheVersion))
         => (cacheHits = 0 /\ cacheMisses = Cardinality(DOMAIN disk))

\* C16, witness: a second run that reuses one file and parses a touched one
C16_Witness ==
  /\ ParsedWithCache
  /\ run = 2
  /\ cacheHits = 1
  /\ cacheMisses = 1
  /\ \E f \in DOMAIN disk \cap DOMAIN cacheBlob.Files :
       disk[f].modTime # cacheBlob.Files[f].ModTime /\ fileData[f] # <<>>

\* C16, the blob discarded as a whole: a damaged cache file, every file parsed
C16_WitnessCorrupt ==
  /\ ParsedWithCache
  /\ cacheBlob = CorruptBlob
  /\ cacheMisses = 2

\* C16, the blob discarded as a whole: another version, every file parsed
C16_WitnessDrift ==
  /\ ParsedWithCache
  /\ cacheBlob \notin {NoCache, CorruptBlob}
  /\ cacheBlob.Version # cacheVersion
  /\ cacheMisses = 2

\* C17: hash stability and bucket uniformity. For every pattern written, all
\* its locations have windows of one length L, every window is the L records
\* of its file from the location on and hashes to the key of the bucket, the
\* JSON hash field is that key in 16 hexadecimal digits, and the JSON lines
\* field is L.
C17_HashStability ==
  (pc = "done") =>
    \A k \in 1..Len(matches) :
      LET m    == matches[k]
          L    == Len(m.Pattern)
          json == results[run].json.patterns[k]
      IN /\ json.lines = L
         /\ json.hash = Hex16(Sum64(Hash(m.Locations[1].Pattern)))
         /\ \A i \in 1..Len(m.Locations) :
              LET loc == m.Locations[i]
              IN /\ Len(loc.Pattern) = L
                 /\ loc.Pattern = SubSeq(fileData[loc.Filename], loc.EntryIndex + 1,
                                         loc.EntryIndex + L)
                 /\ Hash(loc.Pattern) = m.Hash

\* C17, witness: a written pattern that was grown beyond min_size and has two
\* locations
C17_Witness ==
  /\ pc = "done"
  /\ \E k \in 1..Len(matches) :
       /\ Len(matches[k].Pattern) > flags.minSize
       /\ Len(matches[k].Locations) >= 2
       /\ matches[k].Hash # <<>>

\* C18: max_size bound. With max_size > 0 no pattern longer than max_size
\* lines is emitted.
C18_MaxSizeBound ==
  (Filtered /\ flags.maxSize > 0) =>
    \A k \in 1..Len(matches) : Len(matches[k].Pattern) <= flags.maxSize

\* the files the run takes from the cache
HitSet ==
  IF flags.strategy = WordIndent /\ ~flags.noCache THEN ValidEntries ELSE {}

\* C19: per-file I/O errors are absorbed. After the parse a file whose read
\* failed is not in the map and is counted neither as hit nor as miss, every
\* other file is in the map (parsed, unless taken from the cache), and hits
\* and misses add up to the size of the map; the run goes on with that map
\* and reports its size and counts when it is finished.
C19_ReadErrorsAbsorbed ==
  /\ (pc = "save") =>
       /\ \A f \in DOMAIN disk :
            IF ~disk[f].readable /\ f \notin HitSet
            THEN f \notin DOMAIN fileData
            ELSE /\ f \in DOMAIN fileData
                 /\ f \notin HitSet => fileData[f] = parseFile(flags.strategy, disk[f].data)
       /\ cacheHits = Cardinality(HitSet)
       /\ cacheMisses = Cardinality({f \in DOMAIN disk \ HitSet : disk[f].readable})
       /\ cacheHits + cacheMisses = Cardinality(DOMAIN fileData)
  /\ (pc \notin {"parse", "save"}) =>
       /\ \A f \in DOMAIN disk : disk[f].readable => f \in DOMAIN fileData
       /\ cacheHits + cacheMisses = Cardinality(DOMAIN fileData)
  /\ (pc = "done") =>
       /\ results[run].files = Cardinality(DOMAIN fileData)
       /\ results[run].cacheHits + results[run].cacheMisses = results[run].files

\* C19, witness: a run is finished in which the read of one file failed and
\* the other file was parsed and yielded a match
C19_Witness ==
  /\ pc = "done"
  /\ \E f \in DOMAIN disk : ~disk[f].readable /\ f \notin DOMAIN fileData
  /\ \E f \in DOMAIN fileData : disk[f].readable
  /\ results[run].cacheMisses = 1
  /\ results[run].cacheHits = 0
  /\ matches # <<>>

\* line number, indent delta and first word of each entry
Payloads(entries) ==
  [i \in 1..Len(entries) |->
     <<entries[i].LineNumber, entries[i].IndentDelta, entries[i].Word>>]

\* C20: parse parity. The entries a word-indent run parses for a file via the
\* strategy are, in number, line number, indent delta and first word, those
\* of the default parseFile.
C20_ParseParity ==
  (pc = "save" /\ flags.strategy = WordIndent) =>
    \A f \in DOMAIN fileData \ HitSet :
      Payloads(fileData[f]) = Payloads(parseFileDefault(disk[f].data))

\* the physical lines of a file as parseFile sees them
PhysicalLines(f) ==
  SplitLines(Preparse(disk[f].data))

\* is the line skipped: blank, comment-only, or (normalized-indent) deny-listed
Skipped(line) ==
  \/ isWhitespaceOnly(line)
  \/ isCommentOnly(line)
  \/ (flags.strategy = NormalizedIndent /\ shouldSkipByFirstWord(line))

Sign(n) ==
  IF n > 0 THEN 1 ELSE IF n < 0 THEN 0 - 1 ELSE 0

\* C21: parser skip semantics. For every parsed file the line numbers of the
\* records are exactly the physical indices of the lines that are not
\* skipped, in increasing order; a record's indent delta is taken between its
\* line and the line of the record emitted before it (0 as baseline for the
\* first record), whatever skipped lines lie between them: word-indent keeps
\* the difference, normalized-indent its sign.
C21_SkipSemantics ==
  (pc = "save") =>
    \A f \in DOMAIN fileData \ HitSet :
      LET lines   == PhysicalLines(f)
          entries == fileData[f]
      IN /\ {entries[i].LineNumber : i \in 1..Len(entries)}
              = {n \in 1..Len(lines) : ~Skipped(lines[n])}
         /\ \A i \in 1..Len(entries) :
              /\ i > 1 => entries[i-1].LineNumber < entries[i].LineNumber
              /\ entries[i].SourceLine = lines[entries[i].LineNumber]
              /\ LET base == IF i = 1 THEN 0
                             ELSE calculateIndent(lines[entries[i-1].LineNumber])
                     diff == calculateIndent(lines[entries[i].LineNumber]) - base
                 IN entries[i].IndentDelta
                      = IF flags.strategy = WordIndent THEN diff ELSE Sign(diff)

\* C21, witness: a parsed file in which skipped lines lie between two records
\* whose lines have different indents
C21_Witness ==
  /\ pc = "save"
  /\ \E f \in DOMAIN fileData \ HitSet :
       \E i \in 2..Len(fileData[f]) :
         /\ fileData[f][i].LineNumber > fileData[f][i-1].LineNumber + 1
         /\ fileData[f][i].IndentDelta # 0

\* is there a "*/" at offset j of content
CloserAt(content, j) ==
  j + 1 <= Len(content) /\ content[j] = "*" /\ content[j+1] = "/"

\* is there a "/*" at offset i of content
OpenerAt(content, i) ==
  i + 1 <= Len(content) /\ content[i] = "/" /\ content[i+1] = "*"

\* the offsets of the comment regions of content from offset start on: a
\* region runs from the first opener to the end of the first closer that
\* begins after the opener, or to the end of the content
RECURSIVE CommentRegion(_, _)
CommentRegion(content, start) ==
  IF ~\E i \in start..Len(content) : OpenerAt(content, i) THEN {}
  ELSE LET i == CHOOSE i \in start..Len(content) :
                   OpenerAt(content, i) /\ \A k \in start..(i-1) : ~OpenerAt(content, k)
       IN IF ~\E j \in (i+2)..Len(content) : CloserAt(content, j)
          THEN i..Len(content)
          ELSE LET j == CHOOSE j \in (i+2)..Len(content) :
                          CloserAt(content, j) /\ \A k \in (i+2)..(j-1) : ~CloserAt(content, k)
               IN (i..(j+1)) \cup CommentRegion(content, j + 2)

\* C22: the c-style preparser. For every content the output has the length
\* of the input, a newline exactly where the input has one, a space at every
\* other offset of a comment region (delimiters included, also when the
\* comment is not terminated), the input's byte everywhere else, and no "/*";
\* preparsing it again changes nothing.
C22_PreparseFrame ==
  \A f \in DOMAIN disk :
    LET content == disk[f].data
        out     == Preparse(content)
        region  == CommentRegion(content, 1)
    IN /\ Len(out) = Len(content)
       /\ \A k \in 1..Len(content) :
            /\ (out[k] = "\n") <=> (content[k] = "\n")
            /\ out[k] = IF k \in region /\ content[k] # "\n" THEN " " ELSE content[k]
       /\ \A k \in 1..Len(out) : ~OpenerAt(out, k)
       /\ Preparse(out) = out

\* C22, witness: a file parsed whose content has a terminated comment
\* followed by code, which is the one record of the file
C22_Witness ==
  /\ pc = "save"
  /\ \E f \in DOMAIN fileData :
       LET content == disk[f].data
       IN /\ CommentRegion(content, 1) # {}
          /\ Len(content) \notin CommentRegion(content, 1)
          /\ Len(fileData[f]) = 1
          /\ fileData[f][1].Word = <<"x">>

\* C22, the comment that is not terminated
C22_WitnessUnterminated ==
  /\ pc = "save"
  /\ \E f \in DOMAIN fileData :
       LET content == disk[f].data
       IN /\ Len(content) \in CommentRegion(content, 1)
          /\ ~CloserAt(content, Len(content) - 1)
          /\ \E k \in CommentRegion(content, 1) : content[k] = "\n"

\* of the start indices idx of one file, those kept when windows of length L
\* may not overlap and the earliest start wins
RECURSIVE EarliestFirst(_, _)
EarliestFirst(idx, L) ==
  IF idx = {} THEN {}
  ELSE LET m == CHOOSE i \in idx : \A j \in idx : i <= j
       IN {m} \cup EarliestFirst({i \in idx : i >= m + L}, L)

\* the occurrences (file, start index) of a bucket
KeysOf(locs) ==
  {<<locs[i].Filename, locs[i].EntryIndex>> : i \in 1..Len(locs)}

\* what the freeze step has to leave of a bucket of the previous generation
Remaining(locs, grew, L, keepOverlaps) ==
  LET notGrown == KeysOf(locs) \ grew
  IN IF keepOverlaps THEN notGrown
     ELSE {k \in notGrown :
             k[2] \in EarliestFirst({j[2] : j \in {n \in notGrown : n[1] = k[1]}}, L)}

\* C23: the freeze step. In every iteration of the grow loop, each bucket of
\* the previous generation is recorded iff at least min_occur of its
\* occurrences remain, and then it holds exactly these: with keep_overlaps the
\* occurrences that did not grow, without it those of them that survive the
\* per-file pruning in which the earliest start wins; a bucket with fewer is
\* not written and no other bucket of the result is touched.
C23_FreezeStep ==
  [][(pc = "grow" /\ pc' = "grow") =>
       \A h \in DOMAIN allPatterns \cup DOMAIN allPatterns' \cup DOMAIN previousGen :
         IF h \in DOMAIN previousGen
            /\ Cardinality(Remaining(previousGen[h], OccurrenceKeys(survivors'),
                                      currentLen, flags.keepOverlaps)) >= flags.minOccur
         THEN /\ h \in DOMAIN allPatterns'
              /\ KeysOf(allPatterns'[h])
                   = Remaining(previousGen[h], OccurrenceKeys(survivors'),
                               currentLen, flags.keepOverlaps)
              /\ Len(allPatterns'[h]) = Cardinality(KeysOf(allPatterns'[h]))
              /\ Range(allPatterns'[h]) \subseteq Range(previousGen[h])
         ELSE /\ (h \in DOMAIN allPatterns') = (h \in DOMAIN allPatterns)
              /\ h \in DOMAIN allPatterns => allPatterns'[h] = allPatterns[h]]_vars

\* C23, witness: with keep_overlaps a recorded bucket holds two occurrences of
\* one file that overlap
C23_Witness ==
  /\ pc = "grow"
  /\ flags.keepOverlaps
  /\ \E h \in DOMAIN allPatterns :
       \E i, j \in 1..Len(allPatterns[h]) :
         /\ allPatterns[h][i].Filename = allPatterns[h][j].Filename
         /\ allPatterns[h][i].EntryIndex < allPatterns[h][j].EntryIndex
         /\ allPatterns[h][j].EntryIndex
              < allPatterns[h][i].EntryIndex + Len(allPatterns[h][i].Pattern)

\* the first words of a scored window
WordsOf(m) ==
  [i \in 1..Len(m.Pattern) |-> m.Pattern[i].Word]

\* does the word sequence begin with an access modifier followed by
\* "{ return }" or by "return }"
InlineableShape(words) ==
  /\ Len(words) >= 3
  /\ words[1] \in {<<"p", "u", "b", "l", "i", "c">>, <<"p", "r", "i", "v", "a", "t", "e">>,
                    <<"i", "n", "t", "e", "r", "n", "a", "l">>,
                    <<"p", "r", "o", "t", "e", "c", "t", "e", "d">>}
  /\ \/ SubSeq(words, 2, 3) = <<ReturnWord, <<"}">> >>
     \/ (Len(words) >= 4 /\ SubSeq(words, 2, 4) = << <<"{">>, ReturnWord, <<"}">> >>)

\* 50 + floor(max(0, 2*sim - 1) * 50) for sim = a/b
InlineableValue(sim) ==
  IF 2 * sim[1] <= sim[2] THEN 50
  ELSE 50 + (((2 * sim[1] - sim[2]) * 50) \div sim[2])

\* C24 as stated: the score is non-zero exactly for the windows of 3 to 6
\* records of the inlineable shape, and then 50 + floor(max(0, 2*sim - 1) * 50).
C24_InlineableScore_Original ==
  (pc = "done" /\ flags.strategy = Inlineable) =>
    \A k \in 1..Len(matches) :
      LET m == matches[k]
      IN m.Score = IF Len(m.Pattern) \in 3..6 /\ InlineableShape(WordsOf(m))
                   THEN InlineableValue(m.Similarity) ELSE 0

\* C24 amended: the score is non-zero exactly for the windows of 3 to 5
\* records of the inlineable shape, and then 50 + floor(max(0, 2*sim - 1) * 50);
\* it is 0 for every other window, also one of 6 records.
C24_InlineableScore ==
  (pc = "done" /\ flags.strategy = Inlineable) =>
    \A k \in 1..Len(matches) :
      LET m == matches[k]
      IN /\ m.Score = IF Len(m.Pattern) \in 3..5 /\ InlineableShape(WordsOf(m))
                      THEN InlineableValue(m.Similarity) ELSE 0
         /\ (m.Score # 0) <=> (Len(m.Pattern) \in 3..5 /\ InlineableShape(WordsOf(m)))

\* C24, witness: a window of five records of the shape scored 75 at similarity 3/4
C24_Witness ==
  /\ pc = "done"
  /\ flags.strategy = Inlineable
  /\ Len(matches) = 1
  /\ Len(matches[1].Pattern) = 5
  /\ matches[1].Similarity = <<3, 4>>
  /\ matches[1].Score = 75

\* C24, the window of six records of the shape, scored 0
C24_WitnessSix ==
  /\ pc = "done"
  /\ flags.strategy = Inlineable
  /\ Len(matches) = 1
  /\ Len(matches[1].Pattern) = 6
  /\ InlineableShape(WordsOf(matches[1]))
  /\ matches[1].Score = 0

(***************************************************************************)
(* C25: the detection result does not depend on the workers                *)
(***************************************************************************)
\* a bucket map as sets of (file, start index, length) per hash
AsSets(patterns) ==
  [h \in DOMAIN patterns |->
     {<<l.Filename, l.EntryIndex, Len(l.Pattern)>> : l \in Range(patterns[h])}]

\* no bucket holds a window start twice
NoDuplicates(patterns) ==
  \A h \in DOMAIN patterns :
    Cardinality({<<l.Filename, l.EntryIndex>> : l \in Range(patterns[h])}) = Len(patterns[h])

\* one worker extending every location of surv, the buckets taken in hash order
SequentialExtend(surv, fd, newLen) ==
  LET keyOrder == SortedKeys(DOMAIN surv)
  IN GroupByHash(ExtendChunk(fd, Concat([k \in 1..Len(keyOrder) |-> surv[keyOrder[k]]]), newLen))

\* the grow loop of detectPatterns run by one worker
RECURSIVE SequentialGrow(_, _, _, _, _)
SequentialGrow(fd, config, surv, len, all) ==
  IF DOMAIN surv = {} THEN all
  ELSE LET next == Populated(SequentialExtend(surv, fd, len + 1), config.minOccur)
           frozen == CHOOSE a \in FreezeInto(all, surv, OccurrenceKeys(next), len,
                                             config.keepOverlaps, config.minOccur) : TRUE
       IN SequentialGrow(fd, config, next, len + 1, frozen)

\* detectPatterns run by one worker over the files in one fixed order
SequentialDetect(fd, config) ==
  LET fileOrder == CHOOSE o \in Perms(DOMAIN fd) : TRUE
      base      == Populated(generateBasePatternsParallel(fd, fileOrder, config.minSize),
                             config.minOccur)
  IN SequentialGrow(fd, config, base, config.minSize, EmptyMap)

\* C25: whatever the number of workers and the order of their merges, the map
\* detectPatterns returns holds, per hash, the same set of (file, start index,
\* length) as a sequential single-worker run, and no bucket holds a location twice
C25_WorkerIndependence ==
  pc = "write" =>
    /\ AsSets(allPatterns) = AsSets(SequentialDetect(fileData, flags))
    /\ NoDuplicates(allPatterns)

\* two workers shared the locations of an extension and a grown pattern was returned
C25_Witness ==
  /\ pc = "write"
  /\ flags.numWorkers = 2
  /\ \E h \in DOMAIN allPatterns :
       /\ Len(allPatterns[h]) >= 2
       /\ Len(allPatterns[h][1].Pattern) > flags.minSize
  /\ AsSets(allPatterns) = AsSets(SequentialDetect(fileData, flags))

(***************************************************************************)
(* C26: no occurrence of a populated bucket is lost                        *)
(***************************************************************************)
\* the window starts of a bucket map
StartsOf(patterns) ==
  UNION {{<<l.Filename, l.EntryIndex>> : l \in Range(patterns[h])} : h \in DOMAIN patterns}

\* the populated generations of the grow loop, from surv of length len on
RECURSIVE GenerationsFrom(_, _, _, _)
GenerationsFrom(fd, config, surv, len) ==
  IF DOMAIN surv = {} THEN <<>>
  ELSE <<surv>> \o GenerationsFrom(fd, config,
                     Populated(SequentialExtend(surv, fd, len + 1), config.minOccur), len + 1)

\* generation k holds the populated buckets of length minSize + k - 1
Generations(fd, config) ==
  LET fileOrder == CHOOSE o \in Perms(DOMAIN fd) : TRUE
  IN GenerationsFrom(fd, config,
       Populated(generateBasePatternsParallel(fd, fileOrder, config.minSize), config.minOccur),
       config.minSize)

\* the last generation the start s belongs to
LastGeneration(gens, s) ==
  CHOOSE k \in 1..Len(gens) :
    /\ s \in StartsOf(gens[k])
    /\ \A j \in (k + 1)..Len(gens) : s \notin StartsOf(gens[j])

\* s was dropped from its last bucket by the same-file overlap sweep
RemovedByPruning(gens, config, s) ==
  LET k        == LastGeneration(gens, s)
      h        == CHOOSE b \in DOMAIN gens[k] :
                    \E l \in Range(gens[k][b]) : <<l.Filename, l.EntryIndex>> = s
      grew     == IF k < Len(gens) THEN StartsOf(gens[k + 1]) ELSE {}
      notGrown == SelectSeq(gens[k][h], LAMBDA l : <<l.Filename, l.EntryIndex>> \notin grew)
  IN /\ ~config.keepOverlaps
     /\ \A kept \in filterOverlappingOccurrences(notGrown, config.minSize + k - 1) :
          \A l \in Range(kept) : <<l.Filename, l.EntryIndex>> # s

\* s is in the returned map with the length of its last generation
ReportedAtLongest(gens, config, s) ==
  \E h \in DOMAIN allPatterns : \E l \in Range(allPatterns[h]) :
    /\ <<l.Filename, l.EntryIndex>> = s
    /\ Len(l.Pattern) = config.minSize + LastGeneration(gens, s) - 1

\* C26: every window start of a base bucket with at least min_occur members is
\* in the map detectPatterns returns, at the longest length at which its bucket
\* still had min_occur members, unless the overlap sweep removed it
C26_NoOccurrenceLost ==
  pc = "write" =>
    LET gens == Generations(fileData, flags)
    IN Len(gens) > 0 =>
         \A s \in StartsOf(gens[1]) :
           ReportedAtLongest(gens, flags, s) \/ RemovedByPruning(gens, flags, s)

\* the line x of c.go has two siblings in the base bucket and is in no bucket
\* of the returned map: its siblings grew to two lines
C26_WitnessLost ==
  /\ pc = "write"
  /\ run = 1
  /\ DOMAIN fileData = {"a.go", "b.go", "c.go"}
  /\ Len(fileData["c.go"]) = 1
  /\ Len(Generations(fileData, flags)) = 2
  /\ <<"c.go", 0>> \in StartsOf(Generations(fileData, flags)[1])
  /\ <<"c.go", 0>> \notin StartsOf(allPatterns)
  /\ <<"a.go", 0>> \in StartsOf(allPatterns)

(***************************************************************************)
(* C27: the cache pairs a modification time with the records of that content *)
(***************************************************************************)
\* the exported fields of the records of a fresh parse of the file on disk
FreshRecords(f) ==
  LET entries == parseFile(WordIndent, disk[f].data)
  IN [i \in 1..Len(entries) |-> GobEncodeEntry(entries[i])]

\* C27: every cache entry whose modification time is the file's current one
\* holds the records of a parse of the file's current content, also when the
\* file was rewritten between its parse and the stat of saveCache; and the
\* records a run takes from the cache are those of a fresh parse of the file
C27_CacheConsistent ==
  /\ \A f \in ValidEntries :
       disk[f].readable => cacheBlob.Files[f].Entries = FreshRecords(f)
  /\ (run = 2 /\ pc = "save") =>
       \A f \in HitSet :
         disk[f].readable =>
           [i \in 1..Len(fileData[f]) |-> GobEncodeEntry(fileData[f][i])] = FreshRecords(f)

\* the second run took from the cache records that a fresh parse of the file
\* does not give
C27_WitnessStaleHit ==
  /\ run = 2
  /\ pc = "save"
  /\ \E f \in HitSet :
       /\ disk[f].readable
       /\ Len(fileData[f]) < Len(FreshRecords(f))

(***************************************************************************)
(* C28: the grow loop terminates                                           *)
(***************************************************************************)
\* M: the largest record count of a file
MaxRecords ==
  IF DOMAIN fileData = {} THEN 0
  ELSE LET f == CHOOSE g \in DOMAIN fileData :
                  \A o \in DOMAIN fileData : Len(fileData[o]) <= Len(fileData[g])
       IN Len(fileData[f])

\* the iterations of the grow loop made so far in this run
GrowIterations ==
  currentLen - flags.minSize

\* C28: detectPatterns makes at most max(0, M - min_size + 1) grow
\* iterations, M being the largest record count of a file, and the growth-stop
\* length it reports is at most max(M, min_size)
C28_GrowBound ==
  pc \in {"grow", "write", "done"} =>
    /\ GrowIterations <= Max(0, MaxRecords - flags.minSize + 1)
    /\ (DOMAIN survivors = {}) => currentLen - 1 <= Max(MaxRecords, flags.minSize)

\* the loop has stopped after exactly M - min_size + 1 iterations, two of them at least
C28_Witness ==
  /\ pc = "write"
  /\ GrowIterations = MaxRecords - flags.minSize + 1
  /\ GrowIterations >= 2
  /\ currentLen - 1 = MaxRecords

(***************************************************************************)
(* C29: locations are well formed in every generation and in the result    *)
(***************************************************************************)
\* the location is the window of len records of its file that starts at EntryIndex
WellFormedLocation(fd, l, len) ==
  /\ l.Filename \in DOMAIN fd
  /\ 0 <= l.EntryIndex
  /\ l.EntryIndex + len <= Len(fd[l.Filename])
  /\ l.Pattern = SubSeq(fd[l.Filename], l.EntryIndex + 1, l.EntryIndex + len)
  /\ l.LineStart = fd[l.Filename][l.EntryIndex + 1].LineNumber

\* the generation at hand, the frozen buckets and the matches are well formed
WellFormedLocations ==
  /\ \A h \in DOMAIN survivors : \A l \in Range(survivors[h]) :
       WellFormedLocation(fileData, l, currentLen)
  /\ \A h \in DOMAIN allPatterns : \A l \in Range(allPatterns[h]) :
       /\ Len(l.Pattern) \in flags.minSize..currentLen
       /\ WellFormedLocation(fileData, l, Len(l.Pattern))
  /\ \A m \in Range(matches) : \A l \in Range(m.Locations) :
       /\ Len(l.Pattern) = Len(m.Pattern)
       /\ WellFormedLocation(fileData, l, Len(l.Pattern))

\* every location of the next generation is a location of this one with the
\* same file, EntryIndex and LineStart and a window one record longer
ExtensionKeepsStart ==
  (pc = "grow" /\ currentLen' = currentLen + 1) =>
    \A h \in DOMAIN survivors' : \A n \in Range(survivors'[h]) :
      \E g \in DOMAIN survivors : \E l \in Range(survivors[g]) :
        /\ n.Filename = l.Filename
        /\ n.EntryIndex = l.EntryIndex
        /\ n.LineStart = l.LineStart
        /\ Len(n.Pattern) = Len(l.Pattern) + 1
        /\ SubSeq(n.Pattern, 1, Len(l.Pattern)) = l.Pattern

\* C29: after every step each location of the current generation of length L,
\* of the frozen buckets and of the matches lies inside its file, its Pattern
\* is the file's records [EntryIndex, EntryIndex+L) and its LineStart is the
\* line number of record EntryIndex; an extension keeps file, EntryIndex and
\* LineStart and lengthens the window by one record
C29_WellFormed ==
  [][WellFormedLocations' /\ ExtensionKeepsStart]_vars

\* a location that follows a skipped line has been extended: its LineStart is
\* not its EntryIndex + 1 and its window is longer than min_size
C29_Witness ==
  /\ pc = "grow"
  /\ \E h \in DOMAIN survivors : \E l \in Range(survivors[h]) :
       /\ Len(l.Pattern) > flags.minSize
       /\ l.LineStart > l.EntryIndex + 1
       /\ WellFormedLocation(fileData, l, currentLen)

(***************************************************************************)
(* C30: the reported line span covers the occurrence                       *)
(***************************************************************************)
\* the physical lines of the records of a location
RecordLines(l) ==
  {l.Pattern[i].LineNumber : i \in 1..Len(l.Pattern)}

\* the physical lines line_start .. line_start + L - 1 of a location of match m
SpanLines(m, l) ==
  ReadRange(SplitLines(disk[l.Filename].data), l.LineStart, Len(m.Pattern))

\* C30: for every location of a match of L lines the lines line_start ..
\* line_start + L - 1, which the detailed view reads and whose last one is the
\* endLine of the annotation, are exactly the lines of the L records of the
\* occurrence, also when skipped lines lie between the records
C30_SpanCoversOccurrence ==
  pc = "done" =>
    \A k \in 1..Len(results[run].matches) :
      LET m == results[run].matches[k]
      IN /\ results[run].annotations[k].endLine =
              m.Locations[1].Pattern[Len(m.Pattern)].LineNumber
         /\ \A j \in 1..Len(m.Locations) :
              disk[m.Locations[j].Filename].readable =>
                /\ SpanLines(m, m.Locations[j]) = RecordLines(m.Locations[j])
                /\ Len(results[run].detail[k][j]) = Len(m.Pattern)

\* a match of two lines was reported whose records have a skipped line
\* between them: the span ends one line before the second record
C30_WitnessShortSpan ==
  /\ pc = "done"
  /\ run = 1
  /\ \E k \in 1..Len(results[run].matches) :
       LET m == results[run].matches[k]
       IN /\ Len(m.Pattern) = 2
          /\ m.Locations[1].Pattern[2].LineNumber = m.Locations[1].LineStart + 2
          /\ results[run].annotations[k].endLine = m.Locations[1].LineStart + 1
          /\ Len(results[run].detail[k][1]) = 2

\* without a skipped line inside the occurrence the span is the occurrence
C30_ContiguousSpans ==
  pc = "done" =>
    \A k \in 1..Len(results[run].matches) :
      LET m == results[run].matches[k]
      IN \A j \in 1..Len(m.Locations) :
           LET l == m.Locations[j]
           IN (/\ disk[l.Filename].readable
               /\ l.Pattern[Len(m.Pattern)].LineNumber = l.LineStart + Len(m.Pattern) - 1)
              => /\ SpanLines(m, l) = RecordLines(l)
                 /\ Len(results[run].detail[k][j]) = Len(m.Pattern)
                 /\ \A i \in 1..Len(m.Pattern) :
                      results[run].detail[k][j][i] =
                        StripIndent(SplitLines(disk[l.Filename].data)[l.LineStart + i - 1],
                                    MinIndent(SplitLines(disk[l.Filename].data), l.LineStart,
                                              Len(m.Pattern)))

====
